---- MODULE Spec2Model ----
(***************************************************************************)
(* OT case logger: the supervisor review console (two page iterations),    *)
(* the per-page identity and role routing, the create-user endpoint and    *)
(* the login page, as state machines over the remote row store.            *)
(***************************************************************************)
EXTENDS Integers, Sequences, FiniteSets, Bags, TLC

\* JavaScript null / undefined.
NULL == "<null>"
\* null where the value is otherwise a case id.
NoId == 0

\* ------------------------------------------------------------------------
\* Bounds
\* ------------------------------------------------------------------------
NumCases == 2
NumSessions == 2
MaxReviews == 3

CaseIds == 1..NumCases
Sessions == 1..NumSessions

\* ------------------------------------------------------------------------
\* String helpers
\* ------------------------------------------------------------------------

\* String.prototype.toLowerCase over the strings of the model.
toLowerCase(s) ==
  CASE s = "Staff" -> "staff"
    [] s = "SUPERVISOR" -> "supervisor"
    [] s = "Admin" -> "admin"
    [] s = "Nurse" -> "nurse"
    [] OTHER -> s

\* String.prototype.trim over the comment texts of the model.
trim(s) ==
  CASE s = " ok " -> "ok"
    [] s = "  " -> ""
    [] OTHER -> s

\* a || b on nullable strings: null and "" are falsy.
OrElse(a, b) == IF a = NULL \/ a = "" THEN b ELSE a

VARIABLES
  caseStore,      \* remote table cases: id -> row
  supVariant, supProfile,     \* which SupervisorPage iteration is deployed
  supLoading,     \* SupervisorPage state `loading`
  supCases,       \* SupervisorPage state `cases` (the loaded list)
  updatingId,     \* simple iteration: state `updatingId`
  reviewLoading,  \* rich iteration: state `reviewLoading`
  updates,        \* review update calls in flight
  reviews,        \* number of review actions triggered so far
  reviewAlert     \* per session: the alert() its last review handler raised

reviewVars == <<caseStore, supVariant, supProfile, supLoading, supCases, updatingId,
                reviewLoading, updates, reviews, reviewAlert>>

VARIABLES
  entryPage,      \* which page iteration is being entered
  sessionUser,    \* email of the authenticated identity, NULL when signed out
  userRow,        \* the users_profile row with that email, NoRow when none
  entryPc,        \* position of the page's load function
  checkPc,        \* position of the hook-backed AdminPage's checkAuth effect
  user,           \* the identity the load function got from getUser
  prof,           \* the row the load function got from its profile read
  nav,            \* target of the last router.push, NULL when none
  loading,        \* page state `loading`
  profile,        \* page state `profile`
  loaded          \* collections whose rows were read into page state

entryVars == <<entryPage, sessionUser, userRow, entryPc, checkPc, user, prof,
               nav, loading, profile, loaded>>

VARIABLES
  supabaseAdmin,  \* route.ts: whether the admin client could be constructed
  authUsers,      \* login identities of the auth service
  usersProfile,   \* remote table users_profile
  post,           \* the create-user call in progress and its response
  loginPc,        \* position of LoginPage's handleLogin
  email,          \* LoginPage state `email`
  password,       \* LoginPage state `password`
  message,        \* LoginPage state `message`
  loginLoading,   \* LoginPage state `loading`
  loginNav        \* target of LoginPage's router.push, NULL when none

provVars == <<supabaseAdmin, authUsers, usersProfile, post, loginPc, email,
              password, message, loginLoading, loginNav>>

VARIABLES
  staffVariant,   \* which StaffPage iteration is deployed
  staffProfile,   \* StaffPage state profile
  rows,           \* StaffPage state rows: the draft rows
  saving,         \* StaffPage state saving
  staffCases,     \* StaffPage state cases: ids of the displayed cases
  casesFrom,      \* rich iteration: My Cases filter, lower date bound
  casesTo,        \* rich iteration: My Cases filter, upper date bound
  alertMsg,       \* text of the last alert()
  savePc,         \* position of the running handleSaveBatch call
  sv,             \* its locals, and the state it was started in
  casesTable,     \* remote table cases as the staff portal writes it
  caseSkillsTable, \* remote table case_skills
  rowEdits        \* number of row handler calls so far

staffVars == <<staffVariant, staffProfile, rows, saving, staffCases,
               casesFrom, casesTo, alertMsg, savePc, sv, casesTable,
               caseSkillsTable, rowEdits>>

VARIABLES
  adminLoading,        \* admin hook state loading
  adminCases,          \* admin state cases
  adminSkills,         \* admin state skills
  adminCaseSkills,     \* admin state caseSkills
  filterHospitalId,    \* hospital filter (selectedHospitalId in the hook)
  filterStaffId,       \* staff filter (selectedStaffKey in the hook)
  filterFrom,          \* lower date bound (dateFrom in the hook)
  filterTo,            \* upper date bound (dateTo in the hook)
  nowTime,             \* the time new Date() returns
  filteredData,        \* hook iteration: memoized filteredData
  legacyFilteredCases, \* legacy iteration: memoized filteredCases
  trendMetrics,        \* admin page: memoized trendMetrics
  attritionRows        \* admin page: memoized attritionRows

adminVars == <<adminLoading, adminCases, adminSkills, adminCaseSkills,
               filterHospitalId, filterStaffId, filterFrom, filterTo,
               nowTime, filteredData, legacyFilteredCases, trendMetrics,
               attritionRows>>

VARIABLES
  chartStats,    \* HospitalBarChart prop stats: the counts, one per hospital
  chartPc,       \* "props" before the component has rendered, then "rendered"
  chartAxes,     \* whether the axes are drawn (FALSE: the placeholder)
  niceMax,       \* HospitalBarChart const niceMax
  tickStep       \* HospitalBarChart const tickStep, in hundredths

chartVars == <<chartStats, chartPc, chartAxes, niceMax, tickStep>>

VARIABLES
  listPc,          \* rich StaffPage loadData: "refs", "cases", then "ready"
  listLoading,     \* rich StaffPage state loading
  listHospitals,   \* rich StaffPage state hospitals
  listProcedures,  \* rich StaffPage state procedures
  activeTab,       \* rich StaffPage state activeTab
  listFrom,        \* rich StaffPage state casesFrom (My Cases filter)
  listTo,          \* rich StaffPage state casesTo (My Cases filter)
  listTable,       \* remote table cases: the rows of this staff member
  loads,           \* loadCasesForStaff calls in flight
  listIssued,      \* number of loadCasesForStaff calls issued so far
  listCases,       \* rich StaffPage state cases (the displayed list)
  listLastOk       \* whether the cases read handled last succeeded

listVars == <<listPc, listLoading, listHospitals, listProcedures, activeTab,
              listFrom, listTo, listTable, loads, listIssued, listCases,
              listLastOk>>

vars == <<reviewVars, entryVars, provVars, staffVars, adminVars, chartVars, listVars>>

\* ------------------------------------------------------------------------
\* Supervisor review console
\* ------------------------------------------------------------------------

ReviewStatuses == {"approved", "rejected"}
\* Texts a supervisor may type into the comment prompt / textarea.
RawComments == {"", " ok "}
StatusFilters == {"all", "pending", "approved", "rejected"}

\* hospital_id of a case row; never written by the review console.
CaseHospital(c) == IF c % 2 = 1 THEN "h1" ELSE "h2"
HospitalIds == {"h1", "h2"}

\* department of a case row; never written by the review console.
CaseDepartment(c) == IF c <= 1 THEN "ICU" ELSE "ER"

\* Scoping fields of the signed-in supervisor's profile.
SupProfiles == [department : {NULL, "ICU"}, hospital_home_id : {NULL, "h2"}]

\* The rows a cases query returns, in the order of the query.
RECURSIVE QueryCases(_)
QueryCases(n) ==
  IF n = 0 THEN << >>
  ELSE Append(QueryCases(n - 1),
              [id |-> n,
               status |-> caseStore[n].status,
               supervisor_comment |-> caseStore[n].supervisor_comment,
               hospital_id |-> CaseHospital(n)])

\* loadAll's filters on the cases query: .eq('department', ...) when the
\* profile has a department and, in the rich iteration only,
\* .eq('hospital_id', ...) when the profile has a home hospital.
ScopedQuery_NoDepartment ==
  LET InScope(r) ==
        supVariant = "rich" /\ supProfile.hospital_home_id # NULL
          => r.hospital_id = supProfile.hospital_home_id
  IN SelectSeq(QueryCases(NumCases), InScope)

ScopedQuery ==
  LET InScope(r) ==
        /\ supProfile.department # NULL
             => CaseDepartment(r.id) = supProfile.department
        /\ supVariant = "rich" /\ supProfile.hospital_home_id # NULL
             => r.hospital_id = supProfile.hospital_home_id
  IN SelectSeq(QueryCases(NumCases), InScope)

\* Array.prototype.slice(0, n)
Slice(seq, n) == SubSeq(seq, 1, IF Len(seq) < n THEN Len(seq) ELSE n)

Ids(seq) == {seq[i].id : i \in 1..Len(seq)}

Row(s, c) == CHOOSE r \in {supCases[s][i] : i \in 1..Len(supCases[s])} : r.id = c

\* simple iteration: const pendingCases
pendingCases(s) ==
  LET IsPending(r) == toLowerCase(OrElse(r.status, "")) = "pending"
  IN SelectSeq(supCases[s], IsPending)

\* simple iteration: const filteredCasesForList
filteredCasesForList(s, selectedHospitalId, statusFilter) ==
  LET Keep(r) ==
        /\ ~(selectedHospitalId # "all" /\ r.hospital_id # selectedHospitalId)
        /\ ~(statusFilter = "pending"
             /\ toLowerCase(OrElse(r.status, "")) # "pending")
  IN SelectSeq(supCases[s], Keep)

\* simple iteration: the approve/reject buttons of case c are rendered in
\* some view the supervisor can select (tab, hospital filter, status filter).
SimpleControlsRendered(s, c) ==
  /\ ~supLoading[s]
  /\ \/ c \in Ids(Slice(pendingCases(s), 5))
     \/ \E h \in HospitalIds \cup {"all"}, f \in {"all", "pending"} :
          /\ c \in Ids(filteredCasesForList(s, h, f))
          /\ toLowerCase(OrElse(Row(s, c).status, "")) = "pending"

\* rich iteration: const filteredCases
filteredCases(s, statusFilter) ==
  LET Keep(r) ==
        \/ statusFilter = "all"
        \/ toLowerCase(OrElse(r.status, "pending")) = statusFilter
  IN SelectSeq(supCases[s], Keep)

\* rich iteration: renderCaseCard renders the buttons of case c for some
\* status filter, with the card expanded.
renderCaseCard(s, c) ==
  /\ ~supLoading[s]
  /\ \E f \in StatusFilters, expandedCaseId \in CaseIds :
       /\ c \in Ids(filteredCases(s, f))
       /\ expandedCaseId = c
       /\ toLowerCase(OrElse(Row(s, c).status, "pending")) = "pending"

\* Approve/reject controls are on offer for case c in session s.
ControlsOffered(s, c) ==
  IF supVariant = "simple" THEN SimpleControlsRendered(s, c)
  ELSE renderCaseCard(s, c)

\* The buttons' `disabled` attribute.
ButtonsDisabled(s, c) ==
  IF supVariant = "simple" THEN updatingId[s] = c
  ELSE reviewLoading[s][c]

\* The update calls of session s on case c that have not resolved yet.
InFlight(s, c) ==
  {u \in BagToSet(updates) : u.session = s /\ u.caseId = c}

NumInFlight(s, c) ==
  BagCardinality([u \in InFlight(s, c) |-> updates[u]])

\* useEffect loadAll, from the cases query on (the session passed the
\* identity and role steps): the list is the query result, or stays / is
\* set empty when the query fails.
SupLoadAll(s) ==
  /\ supLoading[s]
  /\ \E ok \in BOOLEAN :
       supCases' = [supCases EXCEPT ![s] =
                      IF ok THEN ScopedQuery ELSE << >>]
  /\ supLoading' = [supLoading EXCEPT ![s] = FALSE]
  /\ UNCHANGED <<caseStore, supVariant, supProfile, updatingId, reviewLoading, updates,
                 reviews, reviewAlert, entryVars, provVars, staffVars, adminVars, chartVars, listVars>>

\* simple iteration: updateCaseStatus up to the await of the update call.
updateCaseStatus(s, c, newStatus, raw) ==
  /\ supVariant = "simple"
  /\ ControlsOffered(s, c)
  /\ ~ButtonsDisabled(s, c)
  /\ reviews < MaxReviews
  /\ reviews' = reviews + 1
  /\ LET supervisor_comment ==
           IF newStatus = "rejected"
           THEN OrElse(trim(OrElse(raw, "")), NULL)
           ELSE NULL
     IN updates' = updates (+) SetToBag(
          {[session |-> s, caseId |-> c, status |-> newStatus,
            given |-> IF newStatus = "rejected" THEN raw ELSE NULL,
            supervisor_comment |-> supervisor_comment]})
  /\ updatingId' = [updatingId EXCEPT ![s] = c]
  /\ reviewAlert' = [reviewAlert EXCEPT ![s] = NULL]
  /\ UNCHANGED <<caseStore, supVariant, supProfile, supLoading, supCases, reviewLoading,
                 entryVars, provVars, staffVars, adminVars, chartVars, listVars>>

\* rich iteration: handleReview up to the await of the update call.
handleReview(s, c, newStatus, raw) ==
  /\ supVariant = "rich"
  /\ ControlsOffered(s, c)
  /\ ~ButtonsDisabled(s, c)
  /\ reviews < MaxReviews
  /\ reviews' = reviews + 1
  /\ LET comment == OrElse(raw, "")
     IN updates' = updates (+) SetToBag(
          {[session |-> s, caseId |-> c, status |-> newStatus,
            given |-> raw,
            supervisor_comment |-> OrElse(comment, NULL)]})
  /\ reviewLoading' = [reviewLoading EXCEPT ![s][c] = TRUE]
  /\ UNCHANGED <<caseStore, supVariant, supProfile, supLoading, supCases, updatingId,
                 reviewAlert,
                 entryVars, provVars, staffVars, adminVars, chartVars, listVars>>

MsgUpdateError == "Error updating case status."

\* setCases((prev) => prev.map(...)) of both iterations.
PatchCases(list, u) ==
  [i \in 1..Len(list) |->
     IF list[i].id = u.caseId
     THEN [list[i] EXCEPT !.status = u.status,
                          !.supervisor_comment = u.supervisor_comment]
     ELSE list[i]]

\* The update call of u resolves: the store applied it (ok) or returned an
\* error; then the rest of the handler runs, finally block included.
ReviewResolve(u, ok) ==
  /\ BagIn(u, updates)
  /\ updates' = updates (-) SetToBag({u})
  /\ caseStore' =
       IF ok
       THEN [caseStore EXCEPT ![u.caseId] =
               [status |-> u.status,
                supervisor_comment |-> u.supervisor_comment,
                updated_at |-> IF supVariant = "simple"
                              THEN 1 ELSE @.updated_at]]
       ELSE caseStore
  /\ supCases' = IF ok
                 THEN [supCases EXCEPT ![u.session] = PatchCases(@, u)]
                 ELSE supCases
  /\ IF supVariant = "simple"
     THEN /\ updatingId' = [updatingId EXCEPT ![u.session] = NoId]
          /\ reviewAlert' = [reviewAlert EXCEPT ![u.session] =
                               IF ok THEN NULL ELSE MsgUpdateError]
          /\ UNCHANGED reviewLoading
     ELSE /\ reviewLoading' =
               [reviewLoading EXCEPT ![u.session][u.caseId] = FALSE]
          /\ UNCHANGED <<updatingId, reviewAlert>>
  /\ UNCHANGED <<supVariant, supProfile, supLoading, reviews, entryVars,
                 provVars, staffVars, adminVars, chartVars, listVars>>

ReviewInit ==
  /\ caseStore \in [CaseIds -> [status : {NULL, "pending", "approved"},
                                supervisor_comment : {NULL},
                                updated_at : {0}]]
  /\ supVariant \in {"simple", "rich"}
  /\ supProfile \in SupProfiles
  /\ supLoading = [s \in Sessions |-> TRUE]
  /\ supCases = [s \in Sessions |-> << >>]
  /\ updatingId = [s \in Sessions |-> NoId]
  /\ reviewLoading = [s \in Sessions |-> [c \in CaseIds |-> FALSE]]
  /\ updates = EmptyBag
  /\ reviews = 0
  /\ reviewAlert = [s \in Sessions |-> NULL]

ReviewNext ==
  \/ \E s \in Sessions : SupLoadAll(s)
  \/ \E s \in Sessions, c \in CaseIds, st \in ReviewStatuses,
        raw \in RawComments : updateCaseStatus(s, c, st, raw)
  \/ \E s \in Sessions, c \in CaseIds, st \in ReviewStatuses,
        raw \in RawComments : handleReview(s, c, st, raw)
  \/ \E u \in BagToSet(updates), ok \in BOOLEAN : ReviewResolve(u, ok)

\* C1: a case whose stored status is already approved or rejected is
\* never updated to a different status, whatever sessions issue reviews.
C1_ReviewedStatusIsFinal ==
  [][\A c \in CaseIds :
       caseStore[c].status \in ReviewStatuses
         => caseStore'[c].status = caseStore[c].status]_vars

\* C17: every case in a session's loaded list, and so every case a review
\* can target, has the department of the supervisor profile when the
\* profile has one and, in the rich iteration, the hospital of the
\* profile's home hospital when one is set.
C17_LoadedCasesInScope ==
  /\ \A s \in Sessions : \A c \in Ids(supCases[s]) :
       /\ supProfile.department # NULL
            => CaseDepartment(c) = supProfile.department
       /\ supVariant = "rich" /\ supProfile.hospital_home_id # NULL
            => CaseHospital(c) = supProfile.hospital_home_id
  /\ \A u \in BagToSet(updates) : u.caseId \in Ids(supCases[u.session])

C17_Witness ==
  /\ supProfile.department = "ICU"
  /\ \E s \in Sessions :
       /\ Ids(supCases[s]) = {1}
       /\ \E u \in BagToSet(updates) : u.session = s

\* C2: in a loaded session the approve/reject controls are offered for a
\* case exactly when its status in the loaded list is pending, an absent
\* status counting as pending.
C2_ControlsIffPending ==
  \A s \in Sessions : \A c \in Ids(supCases[s]) :
    ControlsOffered(s, c) <=> OrElse(Row(s, c).status, "pending") = "pending"

\* C3: per case at most one review update is in flight, and while it is in
\* flight the case's buttons are disabled, whatever happens on other cases.
C3_OneUpdateInFlightPerCase ==
  \A s \in Sessions, c \in CaseIds :
    /\ NumInFlight(s, c) <= 1
    /\ NumInFlight(s, c) = 1 => ButtonsDisabled(s, c)

\* C25: when a review update call fails, the supervisor stays on the
\* screen with a failure message, the status and supervisor_comment of the
\* case in the in-memory list are unchanged, and the updating flag of the
\* case is cleared, so that the case stays pending and reviewable.
C25_FailedReviewReportsAndKeepsState ==
  [][\A u \in BagToSet(updates) :
       ReviewResolve(u, FALSE) =>
         /\ reviewAlert'[u.session] # NULL
         /\ supCases'[u.session] = supCases[u.session]
         /\ updatingId'[u.session] = NoId
         /\ reviewLoading'[u.session][u.caseId] = FALSE
         /\ ControlsOffered(u.session, u.caseId)
              => ControlsOffered(u.session, u.caseId)']_vars

\* C26: a successful review action writes to the store, for the targeted
\* case only, the chosen status, a supervisor_comment equal to the trimmed
\* comment (absent when the trimmed comment is empty or none was given),
\* and a refreshed updated_at.
C26_ReviewWritesTrimmedCommentAndTimestamp ==
  [][\A u \in BagToSet(updates) :
       ReviewResolve(u, TRUE) =>
         /\ caseStore'[u.caseId].status = u.status
         /\ caseStore'[u.caseId].supervisor_comment =
              OrElse(trim(OrElse(u.given, "")), NULL)
         /\ caseStore'[u.caseId].updated_at = 1
         /\ \A c \in CaseIds \ {u.caseId} : caseStore'[c] = caseStore[c]]_vars

\* ------------------------------------------------------------------------
\* Identity and role routing on entry to a protected page
\* ------------------------------------------------------------------------

\* The page iterations of the repository.
Pages == {"admin_hook", "admin_legacy", "staff_rich", "staff_simple",
          "sup_simple", "sup_rich"}
AdminPages == {"admin_hook", "admin_legacy"}
StaffPages == {"staff_rich", "staff_simple"}
SupervisorPages == {"sup_simple", "sup_rich"}

\* Values of users_profile.role found in the store.
RoleValues == {"staff", "Staff", "supervisor", "SUPERVISOR", "admin", "Admin",
               "Nurse", NULL}
KnownRoles == {"staff", "supervisor", "admin"}

\* null where the value is otherwise a users_profile row.
NoRow == [absent |-> TRUE]

\* The reference reads a page issues after the profile step.
RefReads(page) ==
  CASE page = "admin_hook" ->
         {"hospitals", "users", "skills", "cases", "case_skills"}
    [] page = "admin_legacy" ->
         {"hospitals", "procedures", "skills", "users"}
    [] page \in StaffPages -> {"hospitals", "procedures", "skills"}
    [] page = "sup_simple" -> {"hospitals", "procedures"}
    [] page = "sup_rich" -> {"hospitals", "procedures", "users"}

\* router.push(path); return;  followed by the finally block.
Redirect(path) ==
  /\ nav' = path
  /\ loading' = FALSE
  /\ entryPc' = "done"
  /\ UNCHANGED <<profile, loaded>>

\* supabase.auth.getUser(): the identity, or none when the call fails.
GetUser(ok) == IF ok THEN sessionUser ELSE NULL

\* .from('users_profile').select('*').eq('email', email).single():
\* no row, like a failed read, comes back as an error with null data.
Single(ok) ==
  [data |-> IF ok THEN userRow ELSE NoRow, error |-> ~ok \/ userRow = NoRow]

\* The same read with .maybeSingle(): no row is null data and no error.
MaybeSingle(ok) ==
  [data |-> IF ok THEN userRow ELSE NoRow, error |-> ~ok]

\* The role branch of the legacy AdminPage and the rich SupervisorPage:
\* role.toLowerCase() throws on a null role (caught, then finally).
RoleGate(row, own) ==
  IF row.role = NULL
  THEN /\ loading' = FALSE
       /\ entryPc' = "done"
       /\ UNCHANGED <<nav, profile, loaded>>
  ELSE IF toLowerCase(row.role) # own
  THEN IF toLowerCase(row.role) \in KnownRoles \ {own}
       THEN Redirect("/" \o toLowerCase(row.role))
       ELSE Redirect("/login")
  ELSE /\ profile' = row
       /\ entryPc' = "refs"
       /\ UNCHANGED <<nav, loading, loaded>>

\* ReadRefs with loading cleared as soon as the reference reads settle.
ReadRefs_ClearsLoading(next) ==
  /\ \E got \in SUBSET RefReads(entryPage) : loaded' = loaded \cup got
  /\ entryPc' = next
  /\ loading' = FALSE
  /\ UNCHANGED <<nav, profile, prof, user>>

\* The reference reads: each read independently succeeds or fails, and a
\* failed read leaves its collection empty.
ReadRefs(next) ==
  /\ \E got \in SUBSET RefReads(entryPage) : loaded' = loaded \cup got
  /\ entryPc' = next
  /\ loading' = (next # "done")
  /\ UNCHANGED <<nav, profile, prof, user>>

\* The cases read that ends the load, then the finally block.
ReadCases ==
  /\ \E ok \in BOOLEAN :
       loaded' = IF ok THEN loaded \cup {"cases"} ELSE loaded
  /\ entryPc' = "done"
  /\ loading' = FALSE
  /\ UNCHANGED <<nav, profile, prof, user>>

EntryFrame ==
  UNCHANGED <<entryPage, sessionUser, userRow, checkPc, reviewVars, provVars,
              staffVars, adminVars, chartVars, listVars>>

\* app/admin/page.tsx: the checkAuth effect of the hook-backed AdminPage.
checkAuth ==
  /\ entryPage = "admin_hook"
  /\ checkPc = "getUser"
  /\ checkPc' = "done"
  /\ \E ok \in BOOLEAN :
       nav' = IF GetUser(ok) = NULL THEN "/login" ELSE nav
  /\ UNCHANGED <<entryPage, sessionUser, userRow, entryPc, user, prof,
                 loading, profile, loaded, reviewVars, provVars,
              staffVars, adminVars, chartVars, listVars>>

\* useAdminDashboardData: loadAll.
HookLoadAll ==
  /\ entryPage = "admin_hook"
  /\ \/ /\ entryPc = "getUser"
        /\ \E ok \in BOOLEAN :
             /\ user' = GetUser(ok)
             /\ IF user' = NULL
                THEN /\ loading' = FALSE
                     /\ entryPc' = "done"
                ELSE /\ entryPc' = "profile"
                     /\ UNCHANGED loading
        /\ UNCHANGED <<prof, nav, profile, loaded>>
     \/ /\ entryPc = "profile"
        /\ UNCHANGED user
        /\ \E ok \in BOOLEAN :
             LET r == MaybeSingle(ok)
             IN /\ prof' = r.data
                /\ profile' = IF ~r.error /\ r.data # NoRow THEN r.data
                              ELSE profile
        /\ entryPc' = "refs"
        /\ UNCHANGED <<nav, loading, loaded>>
     \/ /\ entryPc = "refs"
        /\ ReadRefs("done")
  /\ EntryFrame

\* Legacy AdminPage: loadAll.
AdminLoadAll ==
  /\ entryPage = "admin_legacy"
  /\ \/ /\ entryPc = "getUser"
        /\ \E ok \in BOOLEAN :
             /\ user' = GetUser(ok)
             /\ IF user' = NULL THEN Redirect("/login")
                ELSE /\ entryPc' = "profile"
                     /\ UNCHANGED <<nav, loading, profile, loaded>>
        /\ UNCHANGED prof
     \/ /\ entryPc = "profile"
        /\ UNCHANGED user
        /\ \E ok \in BOOLEAN :
             LET r == Single(ok)
             IN /\ prof' = r.data
                /\ IF r.error \/ r.data = NoRow THEN Redirect("/login")
                   ELSE RoleGate(r.data, "admin")
     \/ /\ entryPc = "refs"
        /\ ReadRefs("cases")
     \/ /\ entryPc = "cases"
        /\ ReadCases
  /\ EntryFrame

\* Rich StaffPage (app/staff/page.tsx): loadData.
StaffLoadData ==
  /\ entryPage = "staff_rich"
  /\ \/ /\ entryPc = "getUser"
        /\ \E ok \in BOOLEAN :
             /\ user' = GetUser(ok)
             /\ IF user' = NULL THEN Redirect("/login")
                ELSE /\ entryPc' = "profile"
                     /\ UNCHANGED <<nav, loading, profile, loaded>>
        /\ UNCHANGED prof
     \/ /\ entryPc = "profile"
        /\ UNCHANGED user
        /\ \E ok \in BOOLEAN :
             LET r == Single(ok)
             IN /\ prof' = r.data
                /\ profile' = r.data
        /\ entryPc' = "refs"
        /\ UNCHANGED <<nav, loading, loaded>>
     \/ /\ entryPc = "refs"
        /\ ReadRefs("cases")
     \/ /\ entryPc = "cases"
        /\ ReadCases
  /\ EntryFrame

\* Simple StaffPage: loadData.
SimpleStaffLoadData ==
  /\ entryPage = "staff_simple"
  /\ \/ /\ entryPc = "getUser"
        /\ \E ok \in BOOLEAN :
             /\ user' = GetUser(ok)
             /\ IF user' = NULL THEN Redirect("/login")
                ELSE /\ entryPc' = "profile"
                     /\ UNCHANGED <<nav, loading, profile, loaded>>
        /\ UNCHANGED prof
     \/ /\ entryPc = "profile"
        /\ UNCHANGED user
        /\ \E ok \in BOOLEAN :
             LET r == Single(ok)
             IN /\ prof' = r.data
                /\ profile' = IF r.error THEN profile ELSE r.data
        /\ entryPc' = "refs"
        /\ UNCHANGED <<nav, loading, loaded>>
     \/ /\ entryPc = "refs"
        /\ ReadRefs("cases")
     \/ /\ entryPc = "cases"
        /\ ReadCases
  /\ EntryFrame

\* Simple SupervisorPage: loadAll.
SimpleSupLoadAll ==
  /\ entryPage = "sup_simple"
  /\ \/ /\ entryPc = "getUser"
        /\ \E ok \in BOOLEAN :
             /\ user' = GetUser(ok)
             /\ IF user' = NULL THEN Redirect("/login")
                ELSE /\ entryPc' = "profile"
                     /\ UNCHANGED <<nav, loading, profile, loaded>>
        /\ UNCHANGED prof
     \/ /\ entryPc = "profile"
        /\ UNCHANGED user
        /\ \E ok \in BOOLEAN :
             LET r == Single(ok)
             IN /\ prof' = r.data
                /\ IF r.error \/ r.data = NoRow THEN Redirect("/login")
                   ELSE /\ profile' = r.data
                        /\ entryPc' = "refs"
                        /\ UNCHANGED <<nav, loading, loaded>>
     \/ /\ entryPc = "refs"
        /\ ReadRefs("cases")
     \/ /\ entryPc = "cases"
        /\ ReadCases
  /\ EntryFrame

\* Rich SupervisorPage: loadAll.
RichSupLoadAll ==
  /\ entryPage = "sup_rich"
  /\ \/ /\ entryPc = "getUser"
        /\ \E ok \in BOOLEAN :
             /\ user' = GetUser(ok)
             /\ IF user' = NULL THEN Redirect("/login")
                ELSE /\ entryPc' = "profile"
                     /\ UNCHANGED <<nav, loading, profile, loaded>>
        /\ UNCHANGED prof
     \/ /\ entryPc = "profile"
        /\ UNCHANGED user
        /\ \E ok \in BOOLEAN :
             LET r == Single(ok)
             IN /\ prof' = r.data
                /\ IF r.error \/ r.data = NoRow THEN Redirect("/login")
                   ELSE RoleGate(r.data, "supervisor")
     \/ /\ entryPc = "refs"
        /\ ReadRefs("cases")
     \/ /\ entryPc = "cases"
        /\ ReadCases
  /\ EntryFrame

\* The render gate of each page: what stands between the loading screen
\* and the page's content.  A page that pushed another route shows nothing.
ContentShown ==
  /\ nav = NULL
  /\ ~loading
  /\ entryPage \in {"admin_legacy", "sup_rich"} => profile # NoRow

\* Rows of some collection were read into the page's state.
DataLoaded == loaded # {}

\* The supervisor can trigger approve/reject: the page is rendered with a
\* loaded case list (the simple iteration also needs profile.email).
ReviewAvailable ==
  /\ entryPage \in SupervisorPages
  /\ ContentShown
  /\ "cases" \in loaded
  /\ entryPage = "sup_simple" => profile # NoRow

EntryInit ==
  /\ entryPage \in Pages
  /\ sessionUser \in {NULL, "u@hmc"}
  /\ userRow \in {NoRow} \cup [role : RoleValues]
  /\ sessionUser = NULL => userRow = NoRow
  /\ entryPc = "getUser"
  /\ checkPc = "getUser"
  /\ user = NULL
  /\ prof = NoRow
  /\ nav = NULL
  /\ loading = TRUE
  /\ profile = NoRow
  /\ loaded = {}

EntryNext ==
  \/ checkAuth
  \/ HookLoadAll
  \/ AdminLoadAll
  \/ StaffLoadData
  \/ SimpleStaffLoadData
  \/ SimpleSupLoadAll
  \/ RichSupLoadAll

\* The role the page was entered with, as the load function read it.
RoleRead == IF prof = NoRow \/ prof.role = NULL THEN NULL
            ELSE toLowerCase(prof.role)

\* Every effect of the page's entry has run to its end.
Settled == entryPc = "done" /\ (entryPage = "admin_hook" => checkPc = "done")

\* C4: on the admin dashboard, data is loaded and rendered only for a
\* profile whose lower-cased role is admin; staff and supervisor profiles
\* end on /staff and /supervisor without admin data or content.
C4_AdminOnlyForAdmin ==
  entryPage \in AdminPages /\ RoleRead \in {"staff", "supervisor"} =>
    /\ ~DataLoaded
    /\ Settled => ~ContentShown /\ nav = "/" \o RoleRead

\* C5: on the staff portal a profile whose lower-cased role is not staff is
\* redirected to its own dashboard and no staff data is loaded or shown.
C5_StaffOnlyForStaff ==
  entryPage \in StaffPages /\ RoleRead \in {"supervisor", "admin"} =>
    /\ ~DataLoaded
    /\ Settled => ~ContentShown /\ nav = "/" \o RoleRead

\* C6: on the supervisor console a profile whose lower-cased role is not
\* supervisor is redirected away (staff to /staff, admin to /admin); no case
\* list is loaded and no review action is available.
C6_SupervisorOnlyForSupervisor ==
  entryPage \in SupervisorPages /\ RoleRead \in {"staff", "admin"} =>
    /\ "cases" \notin loaded
    /\ ~ReviewAvailable
    /\ Settled => nav = "/" \o RoleRead

\* C7: on any protected page, an identity without a profile row, or with
\* an absent or unrecognized role, ends on /login with no content shown.
C7_NoProfileOrRoleToLogin ==
  /\ Settled
  /\ user # NULL
  /\ \/ userRow = NoRow
     \/ prof # NoRow /\ RoleRead \notin KnownRoles
  => nav = "/login" /\ ~ContentShown

\* C27: on each page the loading flag starts true, does not clear before
\* every read of the initial load has settled, and eventually clears on
\* every path of the initial load: all reads succeeding, any read failing,
\* or an early redirect.
C27_LoadingClearsWhenLoadSettles ==
  /\ loading = TRUE
  /\ [](~loading => entryPc = "done")
  /\ <>(~loading)

C27_Witness ==
  /\ ~loading
  /\ entryPc = "done"
  /\ nav = "/login"
  /\ loaded = {}

\* ------------------------------------------------------------------------
\* Create-user endpoint and login page
\* ------------------------------------------------------------------------

NumEmails == 2

\* Email addresses are numbered; 0 is a missing or empty email.
NoEmail == 0
Emails == 1..NumEmails
\* The identity (with its profile) the deployment starts with.
SeedAdmin == NoEmail + 1

Passwords == {"", "pw", "bad"}

\* Who sends a POST: the handler receives no credential of the caller.
Callers == {"anonymous", "staff", "supervisor", "admin"}

\* Request bodies: role is typed staff | supervisor | admin but arrives as
\* whatever the JSON holds.
Bodies == [email : Emails \cup {NoEmail}, password : {"", "pw"},
           role : {"staff", "admin", "nurse", NULL}]

NoBody == [email |-> NoEmail, password |-> "", role |-> NULL]

MsgNotConfigured ==
  "Server is not configured correctly (Supabase admin client missing)."
MsgRequired == "Email and password are required."
MsgCreateFailed == "Failed to create auth user."
MsgInsertFailed == "profile insert error"
MsgUnexpected == "Unexpected server error."
MsgEnter == "Please enter email and password."
MsgInvalid == "Invalid credentials."
MsgNoProfile ==
  "Login OK, but no profile found. Please create a row in users_profile."
MsgUnknownRole == "Unknown role: "

IdlePost ==
  [pc |-> "idle", caller |-> "anonymous", body |-> NoBody, status |-> 0,
   success |-> FALSE, error |-> NULL, bodyRead |-> FALSE,
   createAttempted |-> FALSE, userCreated |-> FALSE,
   insertAttempted |-> FALSE, insertOk |-> FALSE]

\* NextResponse.json(payload, { status }) ends the call.
Respond(call, status, error) ==
  [call EXCEPT !.pc = "responded", !.status = status,
               !.success = (error = NULL), !.error = error]

Registered == {u.email : u \in authUsers}

\* PostReceive with the email/password check left out: every parsed body
\* goes on to createUser.
PostReceive_NoValidation ==
  /\ post.pc \in {"idle", "responded"}
  /\ \E caller \in Callers, body \in Bodies, parses \in BOOLEAN :
       /\ ~parses => body = NoBody
       /\ LET call == [IdlePost EXCEPT !.caller = caller, !.body = body]
              read == [call EXCEPT !.bodyRead = TRUE]
          IN post' =
               IF ~supabaseAdmin THEN Respond(call, 500, MsgNotConfigured)
               ELSE IF ~parses THEN Respond(call, 500, MsgUnexpected)
               ELSE [read EXCEPT !.pc = "createUser"]
  /\ UNCHANGED <<supabaseAdmin, authUsers, usersProfile, loginPc, email,
                 password, message, loginLoading, loginNav, reviewVars,
                 entryVars, staffVars, adminVars, chartVars, listVars>>

\* POST up to the await of createUser: configuration check, req.json()
\* (which throws on a malformed body) and the email/password check.
PostReceive ==
  /\ post.pc \in {"idle", "responded"}
  /\ \E caller \in Callers, body \in Bodies, parses \in BOOLEAN :
       /\ ~parses => body = NoBody
       /\ LET call == [IdlePost EXCEPT !.caller = caller, !.body = body]
              read == [call EXCEPT !.bodyRead = TRUE]
          IN post' =
               IF ~supabaseAdmin THEN Respond(call, 500, MsgNotConfigured)
               ELSE IF ~parses THEN Respond(call, 500, MsgUnexpected)
               ELSE IF body.email = NoEmail \/ body.password = ""
               THEN Respond(read, 400, MsgRequired)
               ELSE [read EXCEPT !.pc = "createUser"]
  /\ UNCHANGED <<supabaseAdmin, authUsers, usersProfile, loginPc, email,
                 password, message, loginLoading, loginNav, reviewVars,
                 entryVars, staffVars, adminVars, chartVars, listVars>>

\* PostCreateUser with the error check after createUser left out: the
\* handler goes on to the profile insert.
PostCreateUser_NoErrorCheck ==
  /\ post.pc = "createUser"
  /\ \E ok \in BOOLEAN :
       /\ ok => post.body.email \notin Registered
       /\ authUsers' = IF ok
                       THEN authUsers \cup
                              {[email |-> post.body.email,
                                password |-> post.body.password,
                                by |-> post.caller]}
                       ELSE authUsers
       /\ post' = [post EXCEPT !.pc = "insert", !.createAttempted = TRUE,
                                !.userCreated = ok]
  /\ UNCHANGED <<supabaseAdmin, usersProfile, loginPc, email, password,
                 message, loginLoading, loginNav, reviewVars, entryVars,
                 staffVars, adminVars, chartVars, listVars>>

\* supabaseAdmin.auth.admin.createUser resolves: the identity is created
\* (only for an email not yet registered) or an error comes back.
PostCreateUser ==
  /\ post.pc = "createUser"
  /\ \E ok \in BOOLEAN :
       /\ ok => post.body.email \notin Registered
       /\ IF ok
          THEN /\ authUsers' = authUsers \cup
                    {[email |-> post.body.email,
                      password |-> post.body.password,
                      by |-> post.caller]}
               /\ post' = [post EXCEPT !.pc = "insert",
                                        !.createAttempted = TRUE,
                                        !.userCreated = TRUE]
          ELSE /\ post' = Respond([post EXCEPT !.createAttempted = TRUE],
                                  400, MsgCreateFailed)
               /\ UNCHANGED authUsers
  /\ UNCHANGED <<supabaseAdmin, usersProfile, loginPc, email, password,
                 message, loginLoading, loginNav, reviewVars, entryVars,
                 staffVars, adminVars, chartVars, listVars>>

\* PostInsertProfile with a compensating delete of the identity when the
\* insert fails.
PostInsertProfile_Rollback ==
  /\ post.pc = "insert"
  /\ \E ok \in BOOLEAN :
       LET call == [post EXCEPT !.insertAttempted = TRUE, !.insertOk = ok]
       IN IF ok
          THEN /\ usersProfile' = usersProfile \cup
                    {[email |-> post.body.email, role |-> post.body.role,
                      by |-> post.caller]}
               /\ post' = Respond(call, 200, NULL)
               /\ UNCHANGED authUsers
          ELSE /\ post' = Respond(call, 400, MsgInsertFailed)
               /\ authUsers' =
                    {u \in authUsers : u.email # post.body.email}
               /\ UNCHANGED usersProfile
  /\ UNCHANGED <<supabaseAdmin, loginPc, email, password,
                 message, loginLoading, loginNav, reviewVars, entryVars,
                 staffVars, adminVars, chartVars, listVars>>

\* The users_profile insert resolves, and the handler responds.
PostInsertProfile ==
  /\ post.pc = "insert"
  /\ \E ok \in BOOLEAN :
       LET call == [post EXCEPT !.insertAttempted = TRUE, !.insertOk = ok]
       IN IF ok
          THEN /\ usersProfile' = usersProfile \cup
                    {[email |-> post.body.email, role |-> post.body.role,
                      by |-> post.caller]}
               /\ post' = Respond(call, 200, NULL)
          ELSE /\ post' = Respond(call, 400, MsgInsertFailed)
               /\ UNCHANGED usersProfile
  /\ UNCHANGED <<supabaseAdmin, authUsers, loginPc, email, password,
                 message, loginLoading, loginNav, reviewVars, entryVars,
                 staffVars, adminVars, chartVars, listVars>>

\* The rows .eq('email', e) selects from users_profile.
ProfilesOf(e) == {r \in usersProfile : r.email = e}

LoginFrame ==
  UNCHANGED <<supabaseAdmin, authUsers, usersProfile, post, reviewVars,
              entryVars, staffVars, adminVars, chartVars, listVars>>

\* The user edits the form fields and submits: handleLogin up to the await
\* of signInWithPassword.
handleLogin ==
  /\ loginPc \in {"idle", "done"}
  /\ loginNav = NULL
  /\ \E e \in Emails \cup {NoEmail}, pw \in Passwords :
       /\ email' = e
       /\ password' = pw
       /\ IF e = NoEmail \/ pw = ""
          THEN /\ message' = MsgEnter
               /\ loginPc' = "done"
               /\ UNCHANGED loginLoading
          ELSE /\ message' = NULL
               /\ loginPc' = "signIn"
               /\ loginLoading' = TRUE
  /\ UNCHANGED loginNav
  /\ LoginFrame

\* LoginSignIn with the check of the sign-in result left out.
LoginSignIn_NoErrorCheck ==
  /\ loginPc = "signIn"
  /\ loginPc' = "profile"
  /\ UNCHANGED <<message, loginLoading>>
  /\ UNCHANGED <<email, password, loginNav>>
  /\ LoginFrame

\* signInWithPassword resolves: it succeeds for the credentials of an
\* existing identity.
LoginSignIn ==
  /\ loginPc = "signIn"
  /\ IF \E u \in authUsers : u.email = email /\ u.password = password
     THEN /\ loginPc' = "profile"
          /\ UNCHANGED <<message, loginLoading>>
     ELSE /\ message' = MsgInvalid
          /\ loginLoading' = FALSE
          /\ loginPc' = "done"
  /\ UNCHANGED <<email, password, loginNav>>
  /\ LoginFrame

\* The profile read (.single()) resolves, then the role routing and the
\* finally block.
LoginProfile ==
  /\ loginPc = "profile"
  /\ \E ok \in BOOLEAN :
       LET found == IF ok THEN ProfilesOf(email) ELSE {}
       IN IF Cardinality(found) # 1
          THEN /\ message' = MsgNoProfile
               /\ UNCHANGED loginNav
          ELSE LET row == CHOOSE r \in found : TRUE
                   role == toLowerCase(OrElse(row.role, ""))
               IN IF role \in KnownRoles
                  THEN /\ loginNav' = "/" \o role
                       /\ UNCHANGED message
                  ELSE /\ message' = MsgUnknownRole \o OrElse(row.role, "null")
                       /\ UNCHANGED loginNav
  /\ loginLoading' = FALSE
  /\ loginPc' = "done"
  /\ UNCHANGED <<email, password>>
  /\ LoginFrame

ProvInit ==
  /\ supabaseAdmin \in BOOLEAN
  /\ authUsers = {[email |-> SeedAdmin, password |-> "pw", by |-> "seed"]}
  /\ usersProfile = {[email |-> SeedAdmin, role |-> "Admin", by |-> "seed"]}
  /\ post = IdlePost
  /\ loginPc = "idle"
  /\ email = NoEmail
  /\ password = ""
  /\ message = NULL
  /\ loginLoading = FALSE
  /\ loginNav = NULL

\* Identities that have no profile row.
Orphans == {u \in authUsers : ProfilesOf(u.email) = {}}

\* C8: a POST from a caller who is unauthenticated or not an admin creates
\* neither a login identity nor a profile row.
C8_OnlyAdminsCreate ==
  \A r \in authUsers \cup usersProfile : r.by \in {"seed", "admin"}

\* C9: the endpoint answers 200 with the success indicator exactly when
\* both the identity creation and the profile insert of that call
\* succeeded; when identity creation fails it answers 400 and attempts no
\* profile insert.
C9_SuccessIffBothSteps ==
  post.pc = "responded" =>
    /\ (post.status = 200 /\ post.success)
         <=> (post.userCreated /\ post.insertOk)
    /\ post.status = 200 <=> post.success
    /\ post.error = MsgCreateFailed =>
         post.status = 400 /\ ~post.insertAttempted
    /\ ~post.userCreated => ~post.insertAttempted

C9_Witness ==
  /\ post.pc = "responded"
  /\ post.status = 200
  /\ post.userCreated
  /\ post.insertOk

\* C10: when the identity was created and the profile insert failed, the
\* endpoint answers 400 and the identity stays; a later login with its
\* credentials passes sign-in and ends with the no-profile message and no
\* navigation.
C10_OrphanIdentity ==
  /\ [](post.pc = "responded" /\ post.userCreated /\ ~post.insertOk =>
          /\ post.status = 400
          /\ \E u \in Orphans : /\ u.email = post.body.email
                                /\ u.password = post.body.password)
  /\ [][/\ authUsers \subseteq authUsers'
        /\ \A u \in Orphans :
             email = u.email /\ password = u.password =>
               /\ loginPc = "signIn" /\ loginPc' # "signIn"
                    => loginPc' = "profile"
               /\ loginPc = "profile" /\ loginPc' = "done"
                    => message' = MsgNoProfile /\ loginNav' = NULL]_vars

C10_Witness ==
  /\ post.pc = "responded" /\ post.userCreated /\ ~post.insertOk
  /\ loginPc = "done"
  /\ email = post.body.email
  /\ password = post.body.password
  /\ message = MsgNoProfile

\* C11: the endpoint makes no backend call (no identity creation, no
\* profile insert) when the admin client is not configured, answering 500
\* before the body is read, or when email or password is missing,
\* answering 400 with "Email and password are required.".
C11_NoBackendCallOnBadRequest ==
  post.pc = "responded" =>
    /\ ~supabaseAdmin =>
         /\ post.status = 500 /\ post.error = MsgNotConfigured
         /\ ~post.bodyRead
         /\ ~post.createAttempted /\ ~post.insertAttempted
    /\ post.bodyRead /\ (post.body.email = NoEmail \/ post.body.password = "")
         => /\ post.status = 400 /\ post.error = MsgRequired
            /\ ~post.createAttempted /\ ~post.insertAttempted

C11_Witness ==
  /\ post.pc = "responded"
  /\ post.bodyRead
  /\ post.body.email = NoEmail
  /\ post.error = MsgRequired

\* C12: every profile row the endpoint inserts has a role among staff,
\* supervisor and admin; a request whose role is missing or outside that
\* set produces no profile row.
C12_InsertedRoleIsKnown ==
  \A r \in usersProfile :
    r.by # "seed" => toLowerCase(OrElse(r.role, "")) \in KnownRoles

\* C23: the login page navigates only after the sign-in succeeded, a
\* profile was found and its lower-cased role is staff, supervisor or
\* admin, and then to /staff, /supervisor or /admin respectively; an empty
\* email or password (rejected with no remote call), a sign-in failure, a
\* missing profile or an unrecognized role each end with a message, no
\* navigation and the loading flag cleared.
C23_LoginNavigatesOnlyForKnownRole ==
  LET signedIn == \E u \in authUsers :
                    u.email = email /\ u.password = password
      routed == {"/" \o toLowerCase(OrElse(r.role, "")) :
                   r \in {x \in ProfilesOf(email) :
                            toLowerCase(OrElse(x.role, "")) \in KnownRoles}}
  IN /\ loginNav # NULL =>
          /\ email # NoEmail /\ password # ""
          /\ signedIn
          /\ loginNav \in routed
     /\ loginPc \in {"signIn", "profile"} => email # NoEmail /\ password # ""
     /\ loginPc = "profile" => signedIn
     /\ loginPc = "done" /\ loginNav = NULL =>
          /\ ~loginLoading
          /\ message # NULL
          /\ email = NoEmail \/ password = "" => message = MsgEnter
          /\ email # NoEmail /\ password # "" /\ ~signedIn =>
               message = MsgInvalid
     /\ loginPc = "done" /\ loginNav # NULL => ~loginLoading

C23_Witness ==
  /\ loginPc = "done"
  /\ loginNav = NULL
  /\ email # NoEmail /\ password # ""
  /\ \E u \in authUsers : u.email = email /\ u.password = password
  /\ \E r \in ProfilesOf(email) : r.role = "nurse"
  /\ message = MsgUnknownRole \o "nurse"

\* ------------------------------------------------------------------------
\* Staff portal: saving a batch of draft rows
\* ------------------------------------------------------------------------

MaxRows == 3

StaffVariants == {"simple", "rich"}
StaffEmail == "staff@hmc"
SkillIds == {"s1", "s2"}

\* Dates are day numbers; NoDate is the empty date string.
NoDate == 0
Day == 10
DayAfter == 20
DayBefore == 5

MsgFill == "Fill at least one case."
MsgErrorSaving == "Error saving cases."
MsgSaved == "Cases saved."

\* The row addRow appends and a successful save resets the draft to.
EmptyRow ==
  [date |-> NoDate, patientCode |-> "", hospitalId |-> "",
   specialtyId |-> "", anesthesiaType |-> "", profileType |-> "",
   asaClass |-> "", department |-> "", selectedSkillIds |-> << >>]

DraftRow(date, code, anesthesia, dept, skillIds) ==
  [date |-> date, patientCode |-> code, hospitalId |-> "h1",
   specialtyId |-> "p1", anesthesiaType |-> anesthesia,
   profileType |-> "Adult", asaClass |-> "ASA 1", department |-> dept,
   selectedSkillIds |-> skillIds]

\* Draft rows a user can have typed: complete rows with two, one and no
\* selected skill, a row without a date, a row without an anesthesia type,
\* and the untouched row. A draft has at least one row: the Remove button
\* is rendered only while there is more than one.
DraftRows ==
  {EmptyRow,
   DraftRow(Day, "P1", "GA", "", <<"s1", "s2">>),
   DraftRow(Day, "P2", "GA", "ER", << >>),
   DraftRow(Day, "P3", "GA", "", <<"s2">>),
   DraftRow(NoDate, "P4", "GA", "", <<"s1">>),
   DraftRow(Day, "P5", "", "", <<"s1">>)}

Drafts == UNION {[1..n -> DraftRows] : n \in 1..MaxRows}

StaffProfiles ==
  {NoRow,
   [email |-> StaffEmail, department |-> NULL],
   [email |-> StaffEmail, department |-> "ICU"]}

\* A case another session saved earlier.
EarlierCase ==
  [staff_id |-> StaffEmail, status |-> "approved", date |-> Day,
   patient_code |-> "P0", hospital_id |-> "h1", department |-> "ICU"]

\* The filter of const cleanedRows = rows.filter(...)
Qualifies(r) ==
  /\ r.date # NoDate
  /\ r.hospitalId # ""
  /\ r.specialtyId # ""
  /\ staffVariant = "rich" =>
       r.anesthesiaType # "" /\ r.profileType # "" /\ r.asaClass # ""

cleanedRows(draft) == SelectSeq(draft, Qualifies)

\* One element of casesToInsert. The rich iteration sends no department.
CaseToInsert(row) ==
  [staff_id |-> staffProfile.email, status |-> "pending", date |-> row.date,
   patient_code |-> OrElse(row.patientCode, NULL),
   hospital_id |-> OrElse(row.hospitalId, NULL),
   department |-> IF staffVariant = "simple"
                  THEN OrElse(OrElse(row.department,
                                     staffProfile.department), NULL)
                  ELSE NULL]

casesToInsert(cleaned) == [i \in 1..Len(cleaned) |-> CaseToInsert(cleaned[i])]

\* row.selectedSkillIds.forEach(... push({ case_id, skill_id }))
RowPairs(caseId, skillIds) ==
  [j \in 1..Len(skillIds) |-> [case_id |-> caseId, skill_id |-> skillIds[j]]]

\* CaseIdFor with the case id looked up by the row's position in the
\* draft instead of its position among the qualifying rows.
CaseIdFor_ByDraftIndex(newCaseIds, idx) ==
  LET at == CHOOSE i \in 1..Len(sv.draft) :
              /\ Qualifies(sv.draft[i])
              /\ Len(SelectSeq(SubSeq(sv.draft, 1, i), Qualifies)) = idx
  IN IF at > Len(newCaseIds) THEN NoId ELSE newCaseIds[at]

\* const caseId = newCaseIds[idx]; undefined past the end of the array.
CaseIdFor(newCaseIds, idx) ==
  IF idx > Len(newCaseIds) THEN NoId ELSE newCaseIds[idx]

\* cleanedRows.forEach((row, idx) => ...): the skills of the idx-th
\* qualifying row are paired with the idx-th returned case id; a row
\* without a case id is skipped.
RECURSIVE caseSkillsPayload(_, _, _)
caseSkillsPayload(cleaned, newCaseIds, idx) ==
  IF idx > Len(cleaned) THEN << >>
  ELSE LET caseId == CaseIdFor(newCaseIds, idx)
       IN (IF caseId = NoId THEN << >>
           ELSE RowPairs(caseId, cleaned[idx].selectedSkillIds))
          \o caseSkillsPayload(cleaned, newCaseIds, idx + 1)

\* Ids of the cases the staff's list query returns.
StaffQuery(table, from, to) ==
  {i \in 1..Len(table) :
     /\ table[i].staff_id = staffProfile.email
     /\ from # NoDate => table[i].date >= from
     /\ to # NoDate => table[i].date <= to}

\* Locals of a handleSaveBatch call that has not got past its checks.
Started(outcome) ==
  [outcome |-> outcome, cleaned |-> << >>, newCaseIds |-> << >>,
   payload |-> << >>, calls |-> 0, casesFailed |-> FALSE,
   csFailed |-> FALSE, refreshed |-> FALSE,
   draft |-> rows, shown |-> staffCases, table |-> casesTable,
   skills |-> caseSkillsTable]

StaffFrame == UNCHANGED <<staffVariant, staffProfile, casesFrom, casesTo,
                          rowEdits,
                          reviewVars, entryVars, provVars, adminVars, chartVars, listVars>>

\* handleSaveBatch with the reload issued at once, without awaiting the
\* inserts.
handleSaveBatch_ReloadNotAwaited ==
  /\ savePc = "idle"
  /\ ~saving
  /\ staffProfile # NoRow
  /\ Len(cleanedRows(rows)) > 0
  /\ sv' = [Started("running") EXCEPT !.cleaned = cleanedRows(rows),
                                      !.calls = 2]
  /\ saving' = TRUE
  /\ alertMsg' = NULL
  /\ savePc' = "refresh"
  /\ UNCHANGED <<rows, staffCases, casesTable, caseSkillsTable>>
  /\ StaffFrame

\* The Save all cases button (disabled while saving): handleSaveBatch up
\* to the await of the cases insert.
handleSaveBatch ==
  /\ savePc = "idle"
  /\ ~saving
  /\ IF staffProfile = NoRow
     THEN /\ sv' = Started("noProfile")
          /\ UNCHANGED <<saving, alertMsg, savePc>>
     ELSE IF Len(rows) = 0
     THEN /\ sv' = Started("noRows")
          /\ UNCHANGED <<saving, alertMsg, savePc>>
     ELSE IF Len(cleanedRows(rows)) = 0
     THEN /\ sv' = Started("noneQualify")
          /\ alertMsg' = MsgFill
          /\ UNCHANGED <<saving, savePc>>
     ELSE /\ sv' = [Started("running") EXCEPT !.cleaned = cleanedRows(rows),
                                              !.calls = 1]
          /\ saving' = TRUE
          /\ alertMsg' = NULL
          /\ savePc' = "insertCases"
  /\ UNCHANGED <<rows, staffCases, casesTable, caseSkillsTable>>
  /\ StaffFrame

\* SaveInsertCases with the insertError check left out.
SaveInsertCases_NoErrorCheck ==
  /\ savePc = "insertCases"
  /\ \E ok \in BOOLEAN :
       LET first == Len(casesTable)
           ids == IF ok THEN [i \in 1..Len(sv.cleaned) |-> first + i]
                  ELSE << >>
           payload == caseSkillsPayload(sv.cleaned, ids, 1)
       IN /\ casesTable' = IF ok
                           THEN casesTable \o casesToInsert(sv.cleaned)
                           ELSE casesTable
          /\ sv' = [sv EXCEPT !.newCaseIds = ids, !.payload = payload,
                              !.casesFailed = ~ok, !.calls = @ + 1]
          /\ savePc' = IF Len(payload) > 0 THEN "insertSkills"
                       ELSE "refresh"
          /\ UNCHANGED <<saving, alertMsg>>
  /\ UNCHANGED <<rows, staffCases, caseSkillsTable>>
  /\ StaffFrame

\* The cases insert resolves (all rows of the batch or none): on an error
\* the handler alerts and returns through finally; otherwise it builds the
\* case_skills payload from the returned ids.
SaveInsertCases ==
  /\ savePc = "insertCases"
  /\ \E ok \in BOOLEAN :
       IF ok
       THEN LET first == Len(casesTable)
                ids == [i \in 1..Len(sv.cleaned) |-> first + i]
                payload == caseSkillsPayload(sv.cleaned, ids, 1)
            IN /\ casesTable' = casesTable \o casesToInsert(sv.cleaned)
               /\ sv' = [sv EXCEPT !.newCaseIds = ids, !.payload = payload,
                                   !.calls = @ + 1]
               /\ savePc' = IF Len(payload) > 0 THEN "insertSkills"
                            ELSE "refresh"
               /\ UNCHANGED <<saving, alertMsg>>
       ELSE /\ sv' = [sv EXCEPT !.outcome = "casesFailed",
                                !.casesFailed = TRUE]
            /\ alertMsg' = MsgErrorSaving
            /\ saving' = FALSE
            /\ savePc' = "idle"
            /\ UNCHANGED casesTable
  /\ UNCHANGED <<rows, staffCases, caseSkillsTable>>
  /\ StaffFrame

\* SaveInsertSkills with a compensating delete of the batch's cases and an
\* error return when the case_skills insert fails.
SaveInsertSkills_Rollback ==
  /\ savePc = "insertSkills"
  /\ \E ok \in BOOLEAN :
       IF ok
       THEN /\ caseSkillsTable' = caseSkillsTable \o sv.payload
            /\ sv' = [sv EXCEPT !.calls = @ + 1]
            /\ savePc' = "refresh"
            /\ UNCHANGED <<casesTable, alertMsg, saving>>
       ELSE /\ casesTable' = sv.table
            /\ sv' = [sv EXCEPT !.csFailed = TRUE,
                                !.outcome = "skillsFailed"]
            /\ alertMsg' = MsgErrorSaving
            /\ saving' = FALSE
            /\ savePc' = "idle"
            /\ UNCHANGED caseSkillsTable
  /\ UNCHANGED <<rows, staffCases>>
  /\ StaffFrame

\* The case_skills insert resolves; an error is only logged.
SaveInsertSkills ==
  /\ savePc = "insertSkills"
  /\ \E ok \in BOOLEAN :
       /\ caseSkillsTable' = IF ok THEN caseSkillsTable \o sv.payload
                             ELSE caseSkillsTable
       /\ sv' = [sv EXCEPT !.csFailed = ~ok, !.calls = @ + 1]
  /\ savePc' = "refresh"
  /\ UNCHANGED <<rows, saving, staffCases, alertMsg, casesTable>>
  /\ StaffFrame

\* The reload of the staff's cases resolves (rich: loadCasesForStaff with
\* the My Cases date filters, which clears the list on an error; simple:
\* the inline query, which keeps the list on an error), then the draft is
\* reset, the success alert is shown and finally clears saving.
SaveRefresh ==
  /\ savePc = "refresh"
  /\ \E ok \in BOOLEAN :
       /\ staffCases' =
            IF ok THEN StaffQuery(casesTable, casesFrom, casesTo)
            ELSE IF staffVariant = "rich" THEN {}
            ELSE staffCases
       /\ sv' = [sv EXCEPT !.outcome = "saved", !.refreshed = ok]
  /\ rows' = <<EmptyRow>>
  /\ alertMsg' = MsgSaved
  /\ saving' = FALSE
  /\ savePc' = "idle"
  /\ UNCHANGED <<casesTable, caseSkillsTable>>
  /\ StaffFrame

StaffInit ==
  /\ staffVariant \in StaffVariants
  /\ staffProfile \in StaffProfiles
  /\ rows \in Drafts
  /\ staffVariant = "rich" => \A i \in 1..Len(rows) : rows[i].department = ""
  /\ casesFrom \in {NoDate, DayAfter}
  /\ casesTo \in {NoDate, DayBefore}
  /\ staffVariant = "simple" => casesFrom = NoDate /\ casesTo = NoDate
  /\ casesTable = <<EarlierCase>>
  /\ caseSkillsTable = << >>
  /\ staffCases = IF staffProfile = NoRow THEN {}
                  ELSE StaffQuery(casesTable, casesFrom, casesTo)
  /\ saving = FALSE
  /\ alertMsg = NULL
  /\ savePc = "idle"
  /\ sv = Started("none")
  /\ rowEdits = 0

StaffNext ==
  \/ handleSaveBatch
  \/ SaveInsertCases
  \/ SaveInsertSkills
  \/ SaveRefresh

\* C13: a save with n qualifying draft rows inserts exactly n cases, in
\* the order of the qualifying rows, and as many case_skill rows as skills
\* are selected on those rows, each referencing the case inserted for its
\* row, also when non-qualifying rows stand between the qualifying ones
\* (stated for a save whose two inserts both succeed).
C13_CasesAndSkillsPaired ==
  savePc = "idle" /\ sv.outcome = "saved" /\ ~sv.csFailed =>
    LET q == SelectSeq(sv.draft, Qualifies)
        n == Len(q)
        base == Len(sv.table)
        newCases == SubSeq(casesTable, base + 1, Len(casesTable))
        newSkills == SubSeq(caseSkillsTable, Len(sv.skills) + 1,
                            Len(caseSkillsTable))
        picks == {p \in (1..n) \X (1..Cardinality(SkillIds)) :
                    p[2] <= Len(q[p[1]].selectedSkillIds)}
    IN /\ SubSeq(casesTable, 1, base) = sv.table
       /\ SubSeq(caseSkillsTable, 1, Len(sv.skills)) = sv.skills
       /\ Len(newCases) = n
       /\ \A k \in 1..n : /\ newCases[k].patient_code = q[k].patientCode
                          /\ newCases[k].date = q[k].date
       /\ Len(newSkills) = Cardinality(picks)
       /\ \A p \in picks :
            \E j \in 1..Len(newSkills) :
              newSkills[j] =
                [case_id |-> base + p[1],
                 skill_id |-> q[p[1]].selectedSkillIds[p[2]]]

C13_Witness ==
  /\ savePc = "idle" /\ sv.outcome = "saved" /\ ~sv.csFailed
  /\ Len(sv.draft) = 3
  /\ ~Qualifies(sv.draft[1])
  /\ Qualifies(sv.draft[2]) /\ Len(sv.draft[2].selectedSkillIds) = 2
  /\ Qualifies(sv.draft[3]) /\ Len(sv.draft[3].selectedSkillIds) = 0
  /\ Len(caseSkillsTable) = 2

\* C14: when the cases insert succeeded and the case_skills insert failed,
\* the inserted cases are kept, the case list is reloaded, the draft is
\* reset to one empty row and the success message is shown.
C14_SkillsFailureKeepsCases ==
  savePc = "idle" /\ sv.csFailed =>
    LET n == Len(SelectSeq(sv.draft, Qualifies))
    IN /\ n > 0
       /\ Len(casesTable) = Len(sv.table) + n
       /\ SubSeq(casesTable, 1, Len(sv.table)) = sv.table
       /\ rows = <<EmptyRow>>
       /\ alertMsg = MsgSaved
       /\ ~saving
       /\ sv.refreshed =>
            staffCases = StaffQuery(casesTable, casesFrom, casesTo)

C14_Witness ==
  /\ savePc = "idle" /\ sv.csFailed /\ sv.refreshed
  /\ Len(casesTable) \in staffCases
  /\ Len(casesTable) > Len(sv.table)

\* C15: a save attempt that inserts no cases has no effect: with no
\* qualifying row no remote call is issued, when the cases insert fails no
\* case_skill row is inserted, and in both situations the draft rows and
\* the displayed list are unchanged and saving ends false.
C15_FailedSaveHasNoEffect ==
  savePc = "idle" /\ sv.outcome # "none" =>
    /\ Len(SelectSeq(sv.draft, Qualifies)) = 0 =>
         sv.calls = 0 /\ casesTable = sv.table
    /\ sv.casesFailed => casesTable = sv.table
    /\ casesTable = sv.table =>
         /\ caseSkillsTable = sv.skills
         /\ rows = sv.draft
         /\ staffCases = sv.shown
         /\ ~saving

C15_Witness ==
  /\ savePc = "idle" /\ sv.casesFailed
  /\ \E i \in 1..Len(sv.draft) :
       Qualifies(sv.draft[i]) /\ Len(sv.draft[i].selectedSkillIds) > 0

\* C16: every case the save inserts carries the draft row's department
\* when the row has one and the saving profile's department otherwise.
C16_DepartmentFallsBackToProfile ==
  savePc = "idle" /\ sv.outcome = "saved" =>
    LET q == SelectSeq(sv.draft, Qualifies)
        base == Len(sv.table)
    IN \A k \in 1..Len(q) :
         casesTable[base + k].department =
           IF q[k].department # "" THEN q[k].department
           ELSE staffProfile.department

\* C24: after a save, the reload read of the case list is issued only
\* once the cases insert has completed, and once the case_skills insert
\* has completed when one is attempted; it is never in flight before or
\* together with an insert.
C24_ReloadIssuedAfterInserts ==
  savePc = "refresh" =>
    /\ Len(sv.newCaseIds) = Len(sv.cleaned)
    /\ casesTable = sv.table \o casesToInsert(sv.cleaned)
    /\ Len(sv.payload) > 0 =>
         \/ sv.csFailed /\ caseSkillsTable = sv.skills
         \/ ~sv.csFailed /\ caseSkillsTable = sv.skills \o sv.payload
    /\ Len(sv.payload) = 0 => caseSkillsTable = sv.skills

C24_Witness ==
  /\ savePc = "refresh"
  /\ Len(sv.payload) > 0
  /\ caseSkillsTable = sv.skills \o sv.payload

\* The row handlers of the New case tab. MaxEdits bounds the number of
\* handler calls of a run, MaxDraftRows the rows addRow builds up.
MaxEdits == 6
MaxDraftRows == 2

RowFields == {"date", "hospitalId", "specialtyId", "anesthesiaType",
              "profileType", "asaClass"}

\* The values an input of the row form can be given.
FieldValues(field) ==
  CASE field = "date" -> {NoDate, Day}
    [] field = "hospitalId" -> {"", "h1"}
    [] field = "specialtyId" -> {"", "p1"}
    [] field = "anesthesiaType" -> {"", "GA"}
    [] field = "profileType" -> {"", "Adult"}
    [] field = "asaClass" -> {"", "ASA 1"}

EditFrame == UNCHANGED <<staffVariant, staffProfile, saving, staffCases,
                         casesFrom, casesTo, alertMsg, savePc, sv,
                         casesTable, caseSkillsTable, reviewVars, entryVars,
                         provVars, adminVars, chartVars, listVars>>

\* The Add another case button.
addRow ==
  /\ rowEdits < MaxEdits
  /\ Len(rows) < MaxDraftRows
  /\ rows' = Append(rows, EmptyRow)
  /\ rowEdits' = rowEdits + 1
  /\ EditFrame

\* removeRow called also for the only row of the draft.
removeRow_Unguarded(index) ==
  /\ rowEdits < MaxEdits
  /\ index \in 1..Len(rows)
  /\ rows' = [i \in 1..(Len(rows) - 1) |->
                IF i < index THEN rows[i] ELSE rows[i + 1]]
  /\ rowEdits' = rowEdits + 1
  /\ EditFrame

\* The Remove button of a row, rendered while rows.length > 1.
removeRow(index) ==
  /\ rowEdits < MaxEdits
  /\ Len(rows) > 1
  /\ index \in 1..Len(rows)
  /\ rows' = [i \in 1..(Len(rows) - 1) |->
                IF i < index THEN rows[i] ELSE rows[i + 1]]
  /\ rowEdits' = rowEdits + 1
  /\ EditFrame

\* An input of a row changes.
updateRowField(index, field, value) ==
  /\ rowEdits < MaxEdits
  /\ index \in 1..Len(rows)
  /\ rows[index][field] # value
  /\ rows' = [rows EXCEPT ![index][field] = value]
  /\ rowEdits' = rowEdits + 1
  /\ EditFrame

\* A skill chip of a row is clicked.
toggleSkillForRow(index, skillId) ==
  /\ rowEdits < MaxEdits
  /\ index \in 1..Len(rows)
  /\ LET Other(id) == id # skillId
         old == rows[index].selectedSkillIds
         selected == IF \E k \in 1..Len(old) : old[k] = skillId
                     THEN SelectSeq(old, Other)
                     ELSE Append(old, skillId)
     IN rows' = [rows EXCEPT ![index].selectedSkillIds = selected]
  /\ rowEdits' = rowEdits + 1
  /\ EditFrame

\* The page as mounted: one empty draft row.
DraftInit ==
  /\ staffVariant \in StaffVariants
  /\ staffProfile = [email |-> StaffEmail, department |-> "ICU"]
  /\ rows = <<EmptyRow>>
  /\ casesFrom = NoDate
  /\ casesTo = NoDate
  /\ casesTable = <<EarlierCase>>
  /\ caseSkillsTable = << >>
  /\ staffCases = StaffQuery(casesTable, casesFrom, casesTo)
  /\ saving = FALSE
  /\ alertMsg = NULL
  /\ savePc = "idle"
  /\ sv = Started("none")
  /\ rowEdits = 0

DraftNext ==
  \/ addRow
  \/ \E index \in 1..MaxDraftRows : removeRow(index)
  \/ \E index \in 1..MaxDraftRows, field \in RowFields :
       \E value \in FieldValues(field) : updateRowField(index, field, value)
  \/ \E index \in 1..MaxDraftRows, skillId \in SkillIds :
       toggleSkillForRow(index, skillId)
  \/ handleSaveBatch
  \/ SaveInsertCases
  \/ SaveInsertSkills
  \/ SaveRefresh

\* C30: the draft row list is never empty: it starts as exactly one empty
\* row, holds at least one row after any sequence of add-row, remove-row,
\* field edits, skill toggles and save attempts the UI allows, and is
\* exactly one empty row immediately after a successful save.
C30_DraftNeverEmpty ==
  /\ rows = <<EmptyRow>>
  /\ [](Len(rows) >= 1)
  /\ [][SaveRefresh => rows' = <<EmptyRow>>]_vars

C30_Witness ==
  /\ savePc = "idle"
  /\ sv.outcome = "saved"
  /\ Len(sv.draft) = 2
  /\ rowEdits >= 4
  /\ rows = <<EmptyRow>>

\* ------------------------------------------------------------------------
\* Admin dashboard analytics
\* ------------------------------------------------------------------------

\* Date strings are day numbers: NoDate is '' or null, BadDate a string
\* that new Date() cannot parse. Times are counted in half days, so that
\* a Date can carry a time of day.
BadDate == 0 - 1
Today == 100
msDay == 2
NoTime == 0

HospitalFilters == {"all", "h1", "h2"}
StaffFilters == {"all", "e1", "e2"}
FromValues == {NoDate, 76, 90}
ToValues == {NoDate, 85, 50}

\* Rows of the cases table an admin can have loaded.
AdminCaseRows ==
  {[id |-> 1, hospital_id |-> "h1", staff_id |-> "e1", date |-> 80],
   [id |-> 2, hospital_id |-> "h2", staff_id |-> "e2", date |-> 70],
   [id |-> 3, hospital_id |-> "h1", staff_id |-> "e2", date |-> BadDate],
   [id |-> 4, hospital_id |-> "h1", staff_id |-> "e1", date |-> 10],
   [id |-> 5, hospital_id |-> "h2", staff_id |-> "e1", date |-> 41]}

\* Rows of a larger team: a busy staff member with recent cases, staff
\* whose single case lies 60 and 61 days back, one whose only case has an
\* unparseable date, and further staff with one recent case each.
AdminTeamRows ==
  {[id |-> 6, hospital_id |-> "h1", staff_id |-> "e3", date |-> 95],
   [id |-> 7, hospital_id |-> "h1", staff_id |-> "e3", date |-> 96],
   [id |-> 8, hospital_id |-> "h1", staff_id |-> "e3", date |-> 97],
   [id |-> 9, hospital_id |-> "h1", staff_id |-> "e3", date |-> 98],
   [id |-> 10, hospital_id |-> "h1", staff_id |-> "e3", date |-> 99],
   [id |-> 11, hospital_id |-> "h2", staff_id |-> "e4", date |-> 40],
   [id |-> 12, hospital_id |-> "h2", staff_id |-> "e5", date |-> 39],
   [id |-> 13, hospital_id |-> "h2", staff_id |-> "e6", date |-> BadDate],
   [id |-> 14, hospital_id |-> "h2", staff_id |-> "e7", date |-> 98],
   [id |-> 15, hospital_id |-> "h2", staff_id |-> "e8", date |-> 97],
   [id |-> 16, hospital_id |-> "h2", staff_id |-> NULL, date |-> 97]}

AdminTeamCaseSkillRows ==
  {[case_id |-> 6, skill_id |-> "s1"], [case_id |-> 7, skill_id |-> "s2"],
   [case_id |-> 14, skill_id |-> "s1"], [case_id |-> 14, skill_id |-> "s2"]}

AdminSkillRows ==
  {[id |-> "s1", active |-> TRUE], [id |-> "s2", active |-> TRUE],
   [id |-> "s3", active |-> FALSE]}

AdminCaseSkillRows ==
  {[case_id |-> 1, skill_id |-> "s1"], [case_id |-> 2, skill_id |-> "s2"],
   [case_id |-> 1, skill_id |-> "s3"], [case_id |-> 4, skill_id |-> NULL]}

\* parseDate: null for an empty or unparseable string, else the Date
\* (midnight of the day).
parseDate(str) ==
  IF str = NoDate \/ str = BadDate THEN NoTime ELSE str * msDay

\* Math.round(x / msDay) for an integer x.
RoundDays(x) == (x + 1) \div msDay

\* pctChange: Math.round(((current - previous) / previous) * 100), which
\* rounds halves up.
pctChange(current, previous) ==
  IF previous = 0 THEN (IF current > 0 THEN 100 ELSE 0)
  ELSE (200 * (current - previous) + previous) \div (2 * previous)

\* hook iteration: the filter of filteredData.filteredCases
HookKeeps(c, hospitalId, staffKey, from, to) ==
  LET startDate == IF from # NoDate THEN parseDate(from) ELSE NoTime
      endDate == IF to # NoDate THEN parseDate(to) ELSE NoTime
      d == parseDate(c.date)
  IN /\ ~(hospitalId # "all" /\ c.hospital_id # hospitalId)
     /\ ~(staffKey # "all" /\ c.staff_id # staffKey)
     /\ startDate # NoTime \/ endDate # NoTime =>
          /\ d # NoTime
          /\ ~(startDate # NoTime /\ d < startDate)
          /\ ~(endDate # NoTime /\ d > endDate)

\* hook iteration: usedSkillIds and skillGaps of filteredData
SkillGapsOf(skills, caseSkills, filtered) ==
  LET filteredCaseIds == {c.id : c \in filtered}
      usedSkillIds == {cs.skill_id : cs \in
                         {x \in caseSkills :
                            /\ x.case_id \in filteredCaseIds
                            /\ x.skill_id # NULL}}
  IN {s \in skills : s.active # FALSE /\ s.id \notin usedSkillIds}

\* hook iteration: one element of teamPerformanceRows (the fields used
\* here). lastDate is the date string of the latest case whose date
\* parses, undefined (NoDate) when none does.
TeamRowOf(key, filtered, caseSkills) ==
  LET casesOfStaff == {c \in filtered : c.staff_id = key}
      staffCaseIds == {c.id : c \in casesOfStaff}
      staffSkillIds == {cs.skill_id : cs \in
                          {x \in caseSkills :
                             /\ x.case_id \in staffCaseIds
                             /\ x.skill_id # NULL}}
      parsed == {c \in casesOfStaff : parseDate(c.date) # NoTime}
  IN [staffKey |-> key,
      totalCases |-> Cardinality(casesOfStaff),
      skillsUsed |-> Cardinality(staffSkillIds),
      lastDate |-> IF parsed = {} THEN NoDate
                   ELSE (CHOOSE c \in parsed :
                           \A o \in parsed : o.date <= c.date).date]

\* hook iteration: teamPerformanceRows, one row per staff_id in the order
\* in which the staff first appear in the filtered cases (the cases taken
\* in id order).
RECURSIVE TeamPerformanceRowsOf(_, _, _)
TeamPerformanceRowsOf(keys, filtered, caseSkills) ==
  IF keys = {} THEN <<>>
  ELSE LET first(k) == CHOOSE i \in {c.id : c \in {x \in filtered :
                                                     x.staff_id = k}} :
                         \A c \in filtered : c.staff_id = k => i <= c.id
           k0 == CHOOSE k \in keys : \A o \in keys : first(k) <= first(o)
       IN <<TeamRowOf(k0, filtered, caseSkills)>> \o
          TeamPerformanceRowsOf(keys \ {k0}, filtered, caseSkills)

\* admin page: the score and level attritionRows gives one row at time now
AttritionOf(row, now) ==
  LET few == IF row.totalCases < 5 THEN 1 ELSE 0
      narrow == IF row.skillsUsed < 2 THEN 1 ELSE 0
      d == parseDate(row.lastDate)
      idle == IF row.lastDate # NoDate
              THEN (IF d # NoTime /\ RoundDays(now - d) > 60 THEN 1 ELSE 0)
              ELSE 1
      score == few + narrow + idle
  IN [staffKey |-> row.staffKey,
      score |-> score,
      level |-> IF score >= 3 THEN "high"
                ELSE IF score = 2 THEN "medium" ELSE "low"]

\* admin page: const attritionRows. The sort is stable, so rows of equal
\* score keep their order.
AttritionRowsOf(teamPerformanceRows, now) ==
  LET scored == [i \in DOMAIN teamPerformanceRows |->
                   AttritionOf(teamPerformanceRows[i], now)]
      Is3(r) == r.score = 3
      Is2(r) == r.score = 2
      Is1(r) == r.score = 1
      sorted == SelectSeq(scored, Is3) \o SelectSeq(scored, Is2) \o
                SelectSeq(scored, Is1)
  IN IF Len(teamPerformanceRows) = 0 THEN <<>>
     ELSE SubSeq(sorted, 1, IF Len(sorted) < 5 THEN Len(sorted) ELSE 5)

\* hook iteration: const filteredData (the fields used here), with its
\* early return for an empty case collection.
FilteredDataOf(cases, skills, caseSkills, hospitalId, staffKey, from, to) ==
  IF cases = {}
  THEN [filteredCases |-> {}, totalCases |-> 0, skillGaps |-> {},
        teamPerformanceRows |-> <<>>]
  ELSE LET filtered == {c \in cases :
                          HookKeeps(c, hospitalId, staffKey, from, to)}
       IN [filteredCases |-> filtered,
           totalCases |-> Cardinality(filtered),
           skillGaps |-> SkillGapsOf(skills, caseSkills, filtered),
           teamPerformanceRows |->
             TeamPerformanceRowsOf(
               {c.staff_id : c \in {x \in filtered : x.staff_id # NULL}},
               filtered, caseSkills)]

\* legacy iteration: const filteredCases. new Date(c.date || '') is an
\* invalid Date for an empty or unparseable date, and such a case passes
\* both date checks.
LegacyFilteredCasesOf(cases, hospitalId, staffId, from, to) ==
  {c \in cases :
     LET cDate == parseDate(c.date)
     IN /\ ~(hospitalId # "all" /\ c.hospital_id # hospitalId)
        /\ ~(staffId # "all" /\ c.staff_id # staffId)
        /\ ~(from # NoDate /\ cDate # NoTime /\ cDate < from * msDay)
        /\ ~(to # NoDate /\ cDate # NoTime /\ cDate > to * msDay)}

\* admin page: const trendMetrics (casesTrend) at time now.
TrendMetricsOf(cases, totalCases, hospitalId, staffKey, from, to, now) ==
  LET s == parseDate(from)
      e == parseDate(to)
      custom == from # NoDate /\ to # NoDate /\ s # NoTime /\ e # NoTime
                /\ s <= e
      currentStart == IF custom THEN s ELSE now - 29 * msDay
      currentEnd == IF custom THEN e ELSE now
      span == RoundDays(currentEnd - currentStart) + 1
      lenDays == IF span < 1 THEN 1 ELSE span
      prevEnd == currentStart - msDay
      prevStart == prevEnd - (lenDays - 1) * msDay
      inRange(dStr, start, end) ==
        LET d == parseDate(dStr)
        IN d # NoTime /\ d >= start /\ d <= end
      prevCases == {c \in cases :
                      /\ ~(hospitalId # "all" /\ c.hospital_id # hospitalId)
                      /\ ~(staffKey # "all" /\ c.staff_id # staffKey)
                      /\ inRange(c.date, prevStart, prevEnd)}
  IN [casesTrend |-> pctChange(totalCases, Cardinality(prevCases))]

\* The values the memoized computations have once the page has rendered
\* with the given state.
AdminRender(cases, skills, caseSkills, hospitalId, staffKey, from, to) ==
  LET data == FilteredDataOf(cases, skills, caseSkills, hospitalId,
                             staffKey, from, to)
  IN /\ filteredData' = data
     /\ legacyFilteredCases' =
          LegacyFilteredCasesOf(cases, hospitalId, staffKey, from, to)
     /\ trendMetrics' = TrendMetricsOf(cases, data.totalCases, hospitalId,
                                       staffKey, from, to, nowTime)
     /\ attritionRows' = AttritionRowsOf(data.teamPerformanceRows, nowTime)

AdminFrame == UNCHANGED <<nowTime, reviewVars, entryVars, provVars,
                          staffVars, chartVars, listVars>>

\* loadAll resolves: the collections are set from the reads.
AdminDataLoaded ==
  /\ adminLoading
  /\ \E base \in SUBSET AdminCaseRows,
        baseSkills \in SUBSET AdminCaseSkillRows,
        team \in {<<{}, {}>>, <<AdminTeamRows, AdminTeamCaseSkillRows>>} :
     LET cases == base \cup team[1]
         caseSkills == baseSkills \cup team[2]
     IN
       /\ adminCases' = cases
       /\ adminSkills' = AdminSkillRows
       /\ adminCaseSkills' = caseSkills
       /\ AdminRender(cases, AdminSkillRows, caseSkills, filterHospitalId,
                      filterStaffId, filterFrom, filterTo)
  /\ adminLoading' = FALSE
  /\ UNCHANGED <<filterHospitalId, filterStaffId, filterFrom, filterTo>>
  /\ AdminFrame

setSelectedHospitalId ==
  /\ ~adminLoading
  /\ \E h \in HospitalFilters :
       /\ filterHospitalId' = h
       /\ AdminRender(adminCases, adminSkills, adminCaseSkills, h,
                      filterStaffId, filterFrom, filterTo)
  /\ UNCHANGED <<adminLoading, adminCases, adminSkills, adminCaseSkills,
                 filterStaffId, filterFrom, filterTo>>
  /\ AdminFrame

setSelectedStaffKey ==
  /\ ~adminLoading
  /\ \E k \in StaffFilters :
       /\ filterStaffId' = k
       /\ AdminRender(adminCases, adminSkills, adminCaseSkills,
                      filterHospitalId, k, filterFrom, filterTo)
  /\ UNCHANGED <<adminLoading, adminCases, adminSkills, adminCaseSkills,
                 filterHospitalId, filterFrom, filterTo>>
  /\ AdminFrame

setDateFrom ==
  /\ ~adminLoading
  /\ \E from \in FromValues :
       /\ filterFrom' = from
       /\ AdminRender(adminCases, adminSkills, adminCaseSkills,
                      filterHospitalId, filterStaffId, from, filterTo)
  /\ UNCHANGED <<adminLoading, adminCases, adminSkills, adminCaseSkills,
                 filterHospitalId, filterStaffId, filterTo>>
  /\ AdminFrame

setDateTo ==
  /\ ~adminLoading
  /\ \E to \in ToValues :
       /\ filterTo' = to
       /\ AdminRender(adminCases, adminSkills, adminCaseSkills,
                      filterHospitalId, filterStaffId, filterFrom, to)
  /\ UNCHANGED <<adminLoading, adminCases, adminSkills, adminCaseSkills,
                 filterHospitalId, filterStaffId, filterFrom>>
  /\ AdminFrame

AdminInit ==
  /\ nowTime \in {Today * msDay, Today * msDay + 1}
  /\ adminLoading = TRUE
  /\ adminCases = {}
  /\ adminSkills = {}
  /\ adminCaseSkills = {}
  /\ filterHospitalId = "all"
  /\ filterStaffId = "all"
  /\ filterFrom = NoDate
  /\ filterTo = NoDate
  /\ filteredData = FilteredDataOf({}, {}, {}, "all", "all", NoDate, NoDate)
  /\ legacyFilteredCases = {}
  /\ trendMetrics = [casesTrend |-> 0]
  /\ attritionRows = <<>>

AdminNext ==
  \/ AdminDataLoaded
  \/ setSelectedHospitalId
  \/ setSelectedStaffKey
  \/ setDateFrom
  \/ setDateTo

\* C18: a case is in the admin filtered set exactly when the hospital
\* filter is "all" or its hospital, the staff filter is "all" or its staff,
\* and either no date bound is set or its date parses and lies within the
\* set bounds (inclusive); a case whose date does not parse is excluded
\* whenever a date bound is set.
C18_FilteredSetMatchesFilters ==
  ~adminLoading =>
    LET InSet(c) ==
          /\ filterHospitalId = "all" \/ filterHospitalId = c.hospital_id
          /\ filterStaffId = "all" \/ filterStaffId = c.staff_id
          /\ \/ filterFrom = NoDate /\ filterTo = NoDate
             \/ /\ c.date \notin {NoDate, BadDate}
                /\ filterFrom # NoDate => c.date >= filterFrom
                /\ filterTo # NoDate => c.date <= filterTo
        expected == {c \in adminCases : InSet(c)}
    IN /\ filteredData.filteredCases = expected
       /\ legacyFilteredCases = expected

\* C19: skillGaps is exactly the set of active skills referenced by no
\* case_skill row of a case in the filtered set, so every active skill is
\* a gap when the filtered set or the whole case collection is empty, and
\* it holds no inactive skill.
C19_SkillGapsAreUnusedActiveSkills ==
  ~adminLoading =>
    filteredData.skillGaps =
      {s \in adminSkills :
         /\ s.active = TRUE
         /\ ~\E cs \in adminCaseSkills :
              /\ cs.skill_id = s.id
              /\ \E c \in filteredData.filteredCases : c.id = cs.case_id}

\* C20: the case-volume trend is pctChange(current, previous), current
\* counting the cases that pass the hospital and staff filters and are
\* dated in the current window (dateFrom..dateTo when both are set and
\* ordered, else the 30 days ending today), previous counting them in the
\* window of equal length that ends the day before the current one starts.
C20_TrendComparesEqualWindows ==
  ~adminLoading =>
    LET ordered == /\ filterFrom # NoDate /\ filterTo # NoDate
                   /\ filterFrom <= filterTo
        today == nowTime \div msDay
        curStart == IF ordered THEN filterFrom ELSE today - 29
        curEnd == IF ordered THEN filterTo ELSE today
        prevEnd == curStart - 1
        prevStart == prevEnd - (curEnd - curStart)
        Counted(first, last) ==
          Cardinality(
            {c \in adminCases :
               /\ filterHospitalId = "all" \/ filterHospitalId = c.hospital_id
               /\ filterStaffId = "all" \/ filterStaffId = c.staff_id
               /\ c.date \notin {NoDate, BadDate}
               /\ first <= c.date /\ c.date <= last})
        current == Counted(curStart, curEnd)
        previous == Counted(prevStart, prevEnd)
    IN trendMetrics.casesTrend =
         IF previous # 0
         THEN (200 * (current - previous) + previous) \div (2 * previous)
         ELSE IF current > 0 THEN 100 ELSE 0

\* C21: for each team performance row the attrition score counts the
\* true conditions among totalCases < 5, skillsUsed < 2, and (the last
\* case date lies more than 60 days before today, or there is no last case
\* date); the attrition list holds the rows of score >= 1 in non-increasing
\* score order, cut to the first 5, with level high iff score >= 3, medium
\* iff score = 2 and low iff score = 1.
C21_AttritionScoreCountsConditions ==
  ~adminLoading =>
    LET team == filteredData.teamPerformanceRows
        today == nowTime \div msDay
        Score(r) ==
          (IF r.totalCases < 5 THEN 1 ELSE 0) +
          (IF r.skillsUsed < 2 THEN 1 ELSE 0) +
          (IF r.lastDate = NoDate \/ today - r.lastDate > 60 THEN 1 ELSE 0)
        risky == {i \in DOMAIN team : Score(team[i]) >= 1}
        listed == {attritionRows[j].staffKey : j \in DOMAIN attritionRows}
    IN /\ Len(attritionRows) =
            IF Cardinality(risky) < 5 THEN Cardinality(risky) ELSE 5
       /\ Cardinality(listed) = Len(attritionRows)
       /\ \A j \in DOMAIN attritionRows :
            LET a == attritionRows[j]
            IN /\ \E i \in risky :
                    /\ team[i].staffKey = a.staffKey
                    /\ a.score = Score(team[i])
               /\ a.level = "high" <=> a.score >= 3
               /\ a.level = "medium" <=> a.score = 2
               /\ a.level = "low" <=> a.score = 1
               /\ j > 1 => attritionRows[j - 1].score >= a.score
       /\ \A i \in risky :
            team[i].staffKey \notin listed =>
              \A j \in DOMAIN attritionRows :
                attritionRows[j].score >= Score(team[i])

\* ------------------------------------------------------------------------
\* Hospital distribution bar chart
\* ------------------------------------------------------------------------

MaxBars == 2
MaxBarCount == 50

\* The stats prop: a list of per-hospital counts.
ChartInputs == UNION {[1..n -> 0..MaxBarCount] : n \in 0..MaxBars}

\* stats.reduce((m, s) => Math.max(m, s.count), 0) || 1
maxCount(stats) ==
  LET m == IF Len(stats) = 0 THEN 0
           ELSE CHOOSE x \in {stats[i] : i \in DOMAIN stats} :
                  \A i \in DOMAIN stats : stats[i] <= x
  IN IF m = 0 THEN 1 ELSE m

\* Math.pow(10, Math.floor(Math.log10(rawMax || 1)))
RECURSIVE magnitude(_)
magnitude(rawMax) ==
  IF rawMax < 10 THEN 1 ELSE 10 * magnitude(rawMax \div 10)

niceMaxOf_Floor(rawMax) ==
  LET m == magnitude(rawMax)
  IN (rawMax \div m) * m

\* Math.ceil(rawMax / magnitude) * magnitude
niceMaxOf(rawMax) ==
  LET m == magnitude(rawMax)
  IN ((rawMax + m - 1) \div m) * m

yTicks == 4

\* niceMax / yTicks, in hundredths
tickStepOf(max) == (max * 100) \div yTicks

\* The component renders: the placeholder for an empty list, else the axes.
HospitalBarChart ==
  /\ chartPc = "props"
  /\ chartPc' = "rendered"
  /\ IF Len(chartStats) = 0
     THEN /\ chartAxes' = FALSE
          /\ UNCHANGED <<niceMax, tickStep>>
     ELSE /\ chartAxes' = TRUE
          /\ niceMax' = niceMaxOf(maxCount(chartStats))
          /\ tickStep' = tickStepOf(niceMaxOf(maxCount(chartStats)))
  /\ UNCHANGED <<chartStats, reviewVars, entryVars, provVars, staffVars,
                 adminVars, listVars>>

ChartInit ==
  /\ chartStats \in ChartInputs
  /\ chartPc = "props"
  /\ chartAxes = FALSE
  /\ niceMax = 0
  /\ tickStep = 0

ChartNext == HospitalBarChart

\* C22: with rawMax the largest count (1 when every count is zero) and 4
\* equal tick intervals, rawMax = 47 gives niceMax 50 and tick step 12.5,
\* rawMax = 3 gives niceMax 4 and tick step 1, and rawMax = 0 gives
\* niceMax 1.
C22_NiceMaxExamples ==
  chartPc = "rendered" /\ chartAxes =>
    LET counts == {chartStats[i] : i \in DOMAIN chartStats}
        largest == CHOOSE x \in counts : \A y \in counts : y <= x
    IN /\ largest = 47 => niceMax = 50 /\ tickStep = 1250
       /\ largest = 3 => niceMax = 4 /\ tickStep = 100
       /\ largest = 0 => niceMax = 1

\* C22 as amended: rawMax = 47 gives niceMax 50 and tick step 12.5,
\* rawMax = 3 gives niceMax 3 and tick step 0.75, and rawMax = 0 gives
\* niceMax 1.
C22_NiceMaxIsCeilingAtMagnitude ==
  chartPc = "rendered" /\ chartAxes =>
    LET counts == {chartStats[i] : i \in DOMAIN chartStats}
        largest == CHOOSE x \in counts : \A y \in counts : y <= x
    IN /\ largest = 47 => niceMax = 50 /\ tickStep = 1250
       /\ largest = 3 => niceMax = 3 /\ tickStep = 75
       /\ largest = 0 => niceMax = 1

C22_Witness ==
  /\ chartPc = "rendered"
  /\ chartAxes
  /\ \E i \in DOMAIN chartStats : chartStats[i] = 3
  /\ \A i \in DOMAIN chartStats : chartStats[i] <= 3
  /\ niceMax = 3

\* ------------------------------------------------------------------------
\* Staff portal: loading the My Cases list
\* ------------------------------------------------------------------------

MaxLoads == 3

UnknownHospital == "Unknown hospital"
UnknownSpecialty == "Unknown specialty"
Dash == "-"

\* The active rows of hospitals and procedures.
ActiveHospitals == {[id |-> "h1", name |-> "General"]}
ActiveProcedures == {[id |-> "p1", name |-> "Cardiac"]}

\* Rows of the cases table that belong to the signed-in staff member, and
\* the row a save adds.
ListCaseRows ==
  {[id |-> 1, date |-> 10, hospital_id |-> "h1", procedure_id |-> "p1"],
   [id |-> 2, date |-> 20, hospital_id |-> "h9", procedure_id |-> NULL]}
SavedCaseRow ==
  [id |-> 3, date |-> 30, hospital_id |-> "h1", procedure_id |-> "p1"]

ListFromValues == {NoDate, 15}
ListToValues == {NoDate, 25}

\* loadCasesForStaff: the query, with the bounds that are set.
ListQuery(table, from, to) ==
  {c \in table : /\ from # NoDate => c.date >= from
                 /\ to # NoDate => c.date <= to}

\* loadCasesForStaff: hospitalMap, procMap and the names given to a row,
\* from the hospitals and procedures the call's closure holds.
ResolveNames(c, hs, ps) ==
  LET hospitalMap == {h \in hs : h.id = c.hospital_id}
      procMap == {q \in ps : q.id = c.procedure_id}
  IN [id |-> c.id, hospital_id |-> c.hospital_id,
      procedure_id |-> c.procedure_id,
      hospitalName |->
        IF c.hospital_id = NULL THEN Dash
        ELSE IF hospitalMap = {} THEN UnknownHospital
        ELSE OrElse((CHOOSE h \in hospitalMap : TRUE).name, UnknownHospital),
      specialtyName |->
        IF c.procedure_id = NULL THEN Dash
        ELSE IF procMap = {} THEN UnknownSpecialty
        ELSE OrElse((CHOOSE q \in procMap : TRUE).name, UnknownSpecialty)]

\* A loadCasesForStaff call up to the await of its query; hs and ps are the
\* hospitals and procedures of the render whose closure makes the call.
Issue(k, from, to, hs, ps) ==
  [n |-> k, from |-> from, to |-> to, hospitals |-> hs, procedures |-> ps,
   served |-> FALSE, ok |-> FALSE, result |-> {}]

ListFrame == UNCHANGED <<reviewVars, entryVars, provVars, staffVars,
                         adminVars, chartVars>>

\* loadData from the reference reads to its call of loadCasesForStaff. The
\* effect runs once, with the functions of the first render, in which
\* hospitals and procedures are the initial empty arrays.
loadData ==
  /\ listPc = "refs"
  /\ \E hOk \in BOOLEAN, pOk \in BOOLEAN :
       /\ listHospitals' = IF hOk THEN ActiveHospitals ELSE {}
       /\ listProcedures' = IF pOk THEN ActiveProcedures ELSE {}
  /\ loads' = {Issue(1, NoDate, NoDate, {}, {})}
  /\ listIssued' = 1
  /\ listPc' = "cases"
  /\ UNCHANGED <<listLoading, activeTab, listFrom, listTo, listTable,
                 listCases, listLastOk>>
  /\ ListFrame

\* The store executes the query of a call in flight.
LoadServed(l) ==
  /\ l \in loads
  /\ ~l.served
  /\ \E ok \in BOOLEAN :
       loads' = (loads \ {l}) \cup
                {[l EXCEPT !.served = TRUE, !.ok = ok,
                           !.result = IF ok
                                      THEN ListQuery(listTable, l.from, l.to)
                                      ELSE {}]}
  /\ UNCHANGED <<listPc, listLoading, listHospitals, listProcedures,
                 activeTab, listFrom, listTo, listTable, listIssued,
                 listCases, listLastOk>>
  /\ ListFrame

\* The response of a call arrives: loadCasesForStaff from its await on,
\* and for the call loadData made, the finally block of loadData.
loadCasesForStaff(l) ==
  /\ l \in loads
  /\ l.served
  /\ loads' = loads \ {l}
  /\ listCases' =
       IF l.ok
       THEN {ResolveNames(c, l.hospitals, l.procedures) : c \in l.result}
       ELSE {}
  /\ listLastOk' = l.ok
  /\ IF l.n = 1
     THEN /\ listPc' = "ready"
          /\ listLoading' = FALSE
     ELSE UNCHANGED <<listPc, listLoading>>
  /\ UNCHANGED <<listHospitals, listProcedures, activeTab, listFrom, listTo,
                 listTable, listIssued>>
  /\ ListFrame

\* A tab button; the filter-change effect reloads on entering My Cases.
setActiveTab(t) ==
  /\ listPc = "ready"
  /\ t # activeTab
  /\ activeTab' = t
  /\ IF t = "cases"
     THEN /\ listIssued < MaxLoads
          /\ listIssued' = listIssued + 1
          /\ loads' = loads \cup
               {Issue(listIssued + 1, listFrom, listTo, listHospitals,
                      listProcedures)}
     ELSE UNCHANGED <<loads, listIssued>>
  /\ UNCHANGED <<listPc, listLoading, listHospitals, listProcedures,
                 listFrom, listTo, listTable, listCases, listLastOk>>
  /\ ListFrame

\* The From input of My Cases, then the filter-change effect.
setCasesFrom(v) ==
  /\ listPc = "ready"
  /\ activeTab = "cases"
  /\ v # listFrom
  /\ listIssued < MaxLoads
  /\ listFrom' = v
  /\ listIssued' = listIssued + 1
  /\ loads' = loads \cup
       {Issue(listIssued + 1, v, listTo, listHospitals, listProcedures)}
  /\ UNCHANGED <<listPc, listLoading, listHospitals, listProcedures,
                 activeTab, listTo, listTable, listCases, listLastOk>>
  /\ ListFrame

\* The To input of My Cases, then the filter-change effect.
setCasesTo(v) ==
  /\ listPc = "ready"
  /\ activeTab = "cases"
  /\ v # listTo
  /\ listIssued < MaxLoads
  /\ listTo' = v
  /\ listIssued' = listIssued + 1
  /\ loads' = loads \cup
       {Issue(listIssued + 1, listFrom, v, listHospitals, listProcedures)}
  /\ UNCHANGED <<listPc, listLoading, listHospitals, listProcedures,
                 activeTab, listFrom, listTable, listCases, listLastOk>>
  /\ ListFrame

\* The Clear button: both bounds are emptied and loadCasesForStaff is
\* called; the filter-change effect calls it once more when a bound
\* changed.
ClearFilters ==
  /\ listPc = "ready"
  /\ activeTab = "cases"
  /\ listFrom' = NoDate
  /\ listTo' = NoDate
  /\ LET changed == listFrom # NoDate \/ listTo # NoDate
         direct == Issue(listIssued + 1, NoDate, NoDate, listHospitals,
                         listProcedures)
         effect == Issue(listIssued + 2, NoDate, NoDate, listHospitals,
                         listProcedures)
     IN /\ listIssued + (IF changed THEN 2 ELSE 1) <= MaxLoads
        /\ listIssued' = listIssued + (IF changed THEN 2 ELSE 1)
        /\ loads' = loads \cup (IF changed THEN {direct, effect}
                                ELSE {direct})
  /\ UNCHANGED <<listPc, listLoading, listHospitals, listProcedures,
                 activeTab, listTable, listCases, listLastOk>>
  /\ ListFrame

\* handleSaveBatch, from the resolution of its inserts on: the saved row
\* is in the table and the reload is issued with the current bounds.
SaveReload ==
  /\ listPc = "ready"
  /\ SavedCaseRow \notin listTable
  /\ listIssued < MaxLoads
  /\ listTable' = listTable \cup {SavedCaseRow}
  /\ listIssued' = listIssued + 1
  /\ loads' = loads \cup
       {Issue(listIssued + 1, listFrom, listTo, listHospitals,
              listProcedures)}
  /\ UNCHANGED <<listPc, listLoading, listHospitals, listProcedures,
                 activeTab, listFrom, listTo, listCases, listLastOk>>
  /\ ListFrame

ListInit ==
  /\ listPc = "refs"
  /\ listLoading = TRUE
  /\ listHospitals = {}
  /\ listProcedures = {}
  /\ activeTab = "new"
  /\ listFrom = NoDate
  /\ listTo = NoDate
  /\ listTable \in SUBSET ListCaseRows
  /\ loads = {}
  /\ listIssued = 0
  /\ listCases = {}
  /\ listLastOk = TRUE

ListNext ==
  \/ loadData
  \/ \E l \in loads : LoadServed(l)
  \/ \E l \in loads : loadCasesForStaff(l)
  \/ \E t \in {"new", "cases", "stats"} : setActiveTab(t)
  \/ \E v \in ListFromValues : setCasesFrom(v)
  \/ \E v \in ListToValues : setCasesTo(v)
  \/ ClearFilters
  \/ SaveReload

\* C28: once the initial load of the staff portal has settled, every case
\* of the list whose hospital_id or procedure_id is that of a loaded active
\* hospital or procedure carries the name of that record, not the Unknown
\* placeholder.
C28_LoadedNamesAreResolved ==
  listPc = "ready" =>
    \A c \in listCases :
      /\ \A h \in listHospitals :
           h.id = c.hospital_id => c.hospitalName = h.name
      /\ \A q \in listProcedures :
           q.id = c.procedure_id => c.specialtyName = q.name

\* C29: once every case-list load in flight has settled, the displayed
\* list is the result of the query issued last (the latest bounds, or the
\* reload after a save), also when loads overlap and their responses
\* arrive out of order.
C29_ListShowsLatestQuery ==
  listPc = "ready" /\ loads = {} /\ listLastOk =>
    {c.id : c \in listCases} =
      {c.id : c \in ListQuery(listTable, listFrom, listTo)}

\* The parts of the system a specification does not exercise stay idle.
ReviewIdle ==
  /\ caseStore = [c \in CaseIds |->
                    [status |-> "pending", supervisor_comment |-> NULL,
                     updated_at |-> 0]]
  /\ supVariant = "rich"
  /\ supProfile = [department |-> NULL, hospital_home_id |-> NULL]
  /\ supLoading = [s \in Sessions |-> TRUE]
  /\ supCases = [s \in Sessions |-> << >>]
  /\ updatingId = [s \in Sessions |-> NoId]
  /\ reviewLoading = [s \in Sessions |-> [c \in CaseIds |-> FALSE]]
  /\ updates = EmptyBag
  /\ reviews = 0
  /\ reviewAlert = [s \in Sessions |-> NULL]

EntryIdle ==
  /\ entryPage = "admin_legacy"
  /\ sessionUser = NULL
  /\ userRow = NoRow
  /\ entryPc = "done"
  /\ checkPc = "done"
  /\ user = NULL
  /\ prof = NoRow
  /\ nav = NULL
  /\ loading = TRUE
  /\ profile = NoRow
  /\ loaded = {}

ProvIdle ==
  /\ supabaseAdmin = TRUE
  /\ authUsers = {}
  /\ usersProfile = {}
  /\ post = IdlePost
  /\ loginPc = "idle"
  /\ email = NoEmail
  /\ password = ""
  /\ message = NULL
  /\ loginLoading = FALSE
  /\ loginNav = NULL

StaffIdle ==
  /\ staffVariant = "rich"
  /\ staffProfile = NoRow
  /\ rows = <<EmptyRow>>
  /\ saving = FALSE
  /\ staffCases = {}
  /\ casesFrom = NoDate
  /\ casesTo = NoDate
  /\ alertMsg = NULL
  /\ savePc = "idle"
  /\ casesTable = << >>
  /\ caseSkillsTable = << >>
  /\ sv = Started("none")
  /\ rowEdits = 0

AdminIdle ==
  /\ nowTime = Today * msDay
  /\ adminLoading = TRUE
  /\ adminCases = {}
  /\ adminSkills = {}
  /\ adminCaseSkills = {}
  /\ filterHospitalId = "all"
  /\ filterStaffId = "all"
  /\ filterFrom = NoDate
  /\ filterTo = NoDate
  /\ filteredData = FilteredDataOf({}, {}, {}, "all", "all", NoDate, NoDate)
  /\ legacyFilteredCases = {}
  /\ trendMetrics = [casesTrend |-> 0]
  /\ attritionRows = <<>>

ChartIdle ==
  /\ chartStats = <<>>
  /\ chartPc = "props"
  /\ chartAxes = FALSE
  /\ niceMax = 0
  /\ tickStep = 0

ListIdle ==
  /\ listPc = "refs"
  /\ listLoading = TRUE
  /\ listHospitals = {}
  /\ listProcedures = {}
  /\ activeTab = "new"
  /\ listFrom = NoDate
  /\ listTo = NoDate
  /\ listTable = {}
  /\ loads = {}
  /\ listIssued = 0
  /\ listCases = {}
  /\ listLastOk = TRUE

InitReview == ReviewInit /\ EntryIdle /\ ProvIdle /\ StaffIdle /\ AdminIdle
  /\ ChartIdle /\ ListIdle
SpecReview == InitReview /\ [][ReviewNext]_vars

InitEntry ==
  EntryInit /\ ReviewIdle /\ ProvIdle /\ StaffIdle /\ AdminIdle /\ ChartIdle
  /\ ListIdle
SpecEntry == InitEntry /\ [][EntryNext]_vars

ProvNext ==
  \/ PostReceive
  \/ PostCreateUser
  \/ PostInsertProfile
  \/ handleLogin
  \/ LoginSignIn
  \/ LoginProfile

InitProvision ==
  ProvInit /\ ReviewIdle /\ EntryIdle /\ StaffIdle /\ AdminIdle /\ ChartIdle
  /\ ListIdle
SpecProvision == InitProvision /\ [][ProvNext]_vars

InitStaff == StaffInit /\ ReviewIdle /\ EntryIdle /\ ProvIdle /\ AdminIdle
  /\ ChartIdle /\ ListIdle
SpecStaff == InitStaff /\ [][StaffNext]_vars

InitAdmin == AdminInit /\ ReviewIdle /\ EntryIdle /\ ProvIdle /\ StaffIdle
  /\ ChartIdle /\ ListIdle
SpecAdmin == InitAdmin /\ [][AdminNext]_vars

InitChart ==
  ChartInit /\ ReviewIdle /\ EntryIdle /\ ProvIdle /\ StaffIdle /\ AdminIdle
  /\ ListIdle
SpecChart == InitChart /\ [][ChartNext]_vars

\* Every awaited call settles and its continuation runs: each effect that
\* can take a step eventually takes one.
SpecEntryFair ==
  /\ InitEntry
  /\ [][EntryNext]_vars
  /\ WF_vars(checkAuth)
  /\ WF_vars(HookLoadAll)
  /\ WF_vars(AdminLoadAll)
  /\ WF_vars(StaffLoadData)
  /\ WF_vars(SimpleStaffLoadData)
  /\ WF_vars(SimpleSupLoadAll)
  /\ WF_vars(RichSupLoadAll)

InitList ==
  ListInit /\ ReviewIdle /\ EntryIdle /\ ProvIdle /\ StaffIdle /\ AdminIdle
  /\ ChartIdle
SpecList == InitList /\ [][ListNext]_vars

InitDraft ==
  DraftInit /\ ReviewIdle /\ EntryIdle /\ ProvIdle /\ AdminIdle /\ ChartIdle
  /\ ListIdle
SpecDraft == InitDraft /\ [][DraftNext]_vars

====
